---- MODULE Spec2Model ----
(***************************************************************************)
(* AdvisorMitra: the service layer of the three-tier advisory application  *)
(* (super admin -> partner -> agent) as a state machine over its MongoDB   *)
(* collections (users, plans, coupons, form_links, forms, activities), the *)
(* generated-PDF directory, the Redis progress store and the SocketIO      *)
(* rooms.  Every service call is one atomic action (the calls are taken    *)
(* one at a time, not interleaved).  A service function is an operator of  *)
(* the current state and its arguments that yields what the call returns   *)
(* (ok, msg, ...) and the collections it leaves; its action installs them. *)
(*                                                                         *)
(* Values: ids are strings; None is NoneId for ids and NoneNum for         *)
(* numbers.  Quantities (limits, counters, prices, percentages) are        *)
(* natural numbers; money is kept in whole units and the amounts are       *)
(* multiples of 100, so that amount * (value / 100) is exact.  Time is a   *)
(* small integer clock `now` (datetime.utcnow()).                          *)
(***************************************************************************)
EXTENDS Integers, FiniteSets, Sequences, TLC

\* ------------------------------------------------------------------ bounds
MaxTime == 2
MaxPdfLimit == 2
MaxUsed == 3

NoneId == "None"
NoneNum == 0 - 1

\* Python truthiness of an optional number: None and 0 are both falsy.
Truthy(x) == x # NoneNum /\ x # 0

Min(a, b) == IF a <= b THEN a ELSE b

\* ------------------------------------------------------------------ ids
SuperAdmins == {"SA"}
Partners == {"P1", "P2"}
Agents == {"A1", "A2"}
UserIds == SuperAdmins \cup Partners \cup Agents
PlanIds == {"PlanA", "PlanB"}
CouponCodes == {"CPN1", "CPN2"}
Tokens == {"t1", "t2"}
FormIds == {"f1", "f2"}
RegTokens == {"r1", "r2"}
Anonymous == "anonymous"
Clients == UserIds \cup {Anonymous}

VARIABLES
    users,          \* users collection: id -> document
    plans,          \* plans collection: id -> document
    coupons,        \* coupons collection: code -> document
    form_links,     \* form_links collection: token -> document
    forms,          \* health insurance forms collection: id -> document
    pdf_files,      \* files present in static/generated_pdfs
    activities,     \* activities collection: its newest document <<user_id, activity_type>>
    now,            \* datetime.utcnow()
    registration_links, \* registration_links collection: token -> document
    progress,       \* Redis keys form_progress:<token>
    agent_forms,    \* Redis keys agent_forms:<agent_id>
    rooms,          \* SocketIO rooms: room -> the clients that joined it
    emitted         \* what the last SocketIO handler emitted

\* The live-progress part of the state.
liveVars == <<progress, agent_forms, rooms, emitted>>

vars == <<users, plans, coupons, form_links, forms, pdf_files, activities, now,
          registration_links, liveVars>>

\* ------------------------------------------------------------------ documents
\* A slot of the users collection that holds no document.
NoUser ==
    [exists |-> FALSE, role |-> NoneId, password |-> <<"bcrypt", NoneId>>,
     username |-> NoneId, email |-> NoneId, registered_via_link |-> NoneId,
     partner_id |-> NoneId,
     is_active |-> FALSE, approval_status |-> NoneId,
     requires_double_approval |-> FALSE,
     partner_approved |-> FALSE, super_admin_approved |-> FALSE,
     rejection_reason |-> NoneId,
     plan_id |-> NoneId, plan_expiry_date |-> NoneNum,
     agent_pdf_limit |-> 0, agent_pdf_generated |-> 0,
     plan_price_paid |-> NoneNum, plan_coupon_used |-> NoneId,
     pdf_limit |-> 0, pdf_generated |-> 0,
     assigned_plans |-> {}, assigned_coupons |-> {},
     last_login |-> NoneNum]

NoLink ==
    [exists |-> FALSE, agent_id |-> NoneId, is_active |-> FALSE,
     usage_count |-> 0, usage_limit |-> NoneNum, expires_at |-> NoneNum]

NoForm ==
    [exists |-> FALSE, agent_id |-> NoneId, form_link_id |-> NoneId,
     pdf_generated |-> FALSE, pdf_filename |-> NoneId]

NoCoupon ==
    [exists |-> FALSE, discount_type |-> NoneId, discount_value |-> 0,
     min_purchase_amount |-> 0, max_discount_amount |-> NoneNum,
     usage_limit |-> NoneNum, used_count |-> 0,
     valid_from |-> 0, valid_until |-> NoneNum, is_active |-> FALSE,
     applicable_plans |-> {}, partner_limits |-> <<>>]

\* The activities collection is only ever appended to and no service reads
\* it: the model keeps its newest document.
NoActivity == <<NoneId, NoneId>>

\* log_activity: one more document in the activities collection.
log_activity(user_id, activity_type) == <<user_id, activity_type>>

\* The first id of `ids` (in the order of `order`) that `taken` does not hold.
FirstFree(order, taken) ==
    LET free == {i \in 1..Len(order) : ~taken[order[i]].exists}
    IN  IF free = {} THEN NoneId
        ELSE order[CHOOSE i \in free : \A j \in free : i <= j]

NoRegLink ==
    [exists |-> FALSE, partner_id |-> NoneId, created_by |-> NoneId,
     used |-> FALSE, used_by |-> NoneId]

TokenOrder == <<"t1", "t2">>
RegTokenOrder == <<"r1", "r2">>
FormIdOrder == <<"f1", "f2">>

\* ------------------------------------------------------------------ users
\* User.hash_password / User.verify_password (bcrypt): a hash verifies exactly
\* the password it was made from.
hash_password(password) == <<"bcrypt", password>>

\* A verification that accepts every password.
verify_any_password(password, hashed) == TRUE

verify_password(password, hashed) == hashed = hash_password(password)

\* User(data): the object the services read a user document through.
User(data) == data

\* The initial super admin account.
SuperAdminDoc ==
    [NoUser EXCEPT !.exists = TRUE, !.role = "SUPER_ADMIN", !.password = hash_password("pw"),
                   !.is_active = TRUE, !.approval_status = "APPROVED"]

\* A partner as create_partner leaves it, once approved.
PartnerDoc(rda, limit) ==
    [NoUser EXCEPT !.exists = TRUE, !.role = "PARTNER", !.password = hash_password("pw"),
                   !.is_active = TRUE, !.approval_status = "APPROVED",
                   !.requires_double_approval = rda,
                   !.super_admin_approved = TRUE,
                   !.pdf_limit = limit, !.pdf_generated = 0]

\* An agent as register_agent_via_link inserts it.
RegisteredAgentDoc(partner_id, rda) ==
    [NoUser EXCEPT !.exists = TRUE, !.role = "AGENT", !.password = hash_password("pw"),
                   !.partner_id = partner_id,
                   !.approval_status = "PENDING",
                   !.is_active = TRUE,
                   !.agent_pdf_generated = 0, !.agent_pdf_limit = 0,
                   !.requires_double_approval = rda]

\* The accounts that exist from the start carry the user name of their id
\* and an e-mail address of their own.
SeedEmail(u) == u \o "@seed"

Seeded(docs) ==
    [u \in DOMAIN docs |->
        IF docs[u].exists
        THEN [docs[u] EXCEPT !.username = u, !.email = SeedEmail(u)]
        ELSE docs[u]]

\* insert_one gives a new user document a fresh _id: the id named like the
\* user name while that is free, the first free id otherwise.
UserIdOrder == <<"SA", "P1", "P2", "A1", "A2">>

InsertedId(username) ==
    IF username \in UserIds /\ ~users[username].exists THEN username
    ELSE FirstFree(UserIdOrder, users)

\* User.is_super_admin / is_partner / is_agent.
is_super_admin(u) == u.role = "SUPER_ADMIN"
is_partner(u) == u.role = "PARTNER"
is_agent(u) == u.role = "AGENT"

\* ------------------------------------------------------------------ coupons
\* bson.ObjectId(x) and str(x): an ObjectId never equals a str, whatever the text.
ObjectId(x) == [type |-> "ObjectId", v |-> x]
StrVal(x) == [type |-> "str", v |-> x]

\* Coupon(data): the attributes the constructor copies from the document.
Coupon(data) ==
    [_id |-> data._id,
     discount_type |-> data.discount_type,
     discount_value |-> data.discount_value,
     min_purchase_amount |-> data.min_purchase_amount,
     max_discount_amount |-> data.max_discount_amount,
     usage_limit |-> data.usage_limit,
     used_count |-> data.used_count,
     valid_from |-> data.valid_from,
     valid_until |-> data.valid_until,
     is_active |-> data.is_active,
     applicable_plans |-> data.applicable_plans]

hasattr(obj, name) == name \in DOMAIN obj

\* The document stored under a code, with its _id (the code stands for the id).
CouponData(code) == [_id |-> code] @@ coupons[code]

\* A validity test that lets one application too many through.
is_valid_late(c) ==
    IF ~c.is_active THEN <<FALSE, "Coupon is not active">>
    ELSE IF c.valid_from # NoneNum /\ now < c.valid_from
        THEN <<FALSE, "Coupon is not yet valid">>
    ELSE IF c.valid_until # NoneNum /\ now > c.valid_until
        THEN <<FALSE, "Coupon has expired">>
    ELSE IF Truthy(c.usage_limit) /\ c.used_count > c.usage_limit
        THEN <<FALSE, "Coupon usage limit exceeded">>
    ELSE <<TRUE, "Valid">>

\* Coupon.is_valid: (valid, message).
is_valid(c) ==
    IF ~c.is_active THEN <<FALSE, "Coupon is not active">>
    ELSE IF c.valid_from # NoneNum /\ now < c.valid_from
        THEN <<FALSE, "Coupon is not yet valid">>
    ELSE IF c.valid_until # NoneNum /\ now > c.valid_until
        THEN <<FALSE, "Coupon has expired">>
    ELSE IF Truthy(c.usage_limit) /\ c.used_count >= c.usage_limit
        THEN <<FALSE, "Coupon usage limit exceeded">>
    ELSE <<TRUE, "Valid">>

\* A discount that forgets the cap of a percentage coupon.
calculate_discount_uncapped(c, amount, plan_id) ==
    IF amount < c.min_purchase_amount THEN 0
    ELSE IF c.discount_type = "PERCENTAGE"
        THEN (amount * c.discount_value) \div 100
    ELSE Min(c.discount_value, amount)

\* Coupon.calculate_discount(amount, plan_id); plan_id is the caller's string.
calculate_discount(c, amount, plan_id) ==
    IF plan_id # NoneId /\ c.applicable_plans # {}
       /\ StrVal(plan_id) \notin c.applicable_plans
    THEN 0
    ELSE IF amount < c.min_purchase_amount THEN 0
    ELSE IF c.discount_type = "PERCENTAGE"
        THEN LET discount == (amount * c.discount_value) \div 100
             IN  IF Truthy(c.max_discount_amount)
                 THEN Min(discount, c.max_discount_amount)
                 ELSE discount
    ELSE Min(c.discount_value, amount)

\* An application that counts the use before it knows the discount.
validate_and_count_first(code, amount, plan_id, partner_id) ==
    LET counted == IF code \in CouponCodes /\ coupons[code].exists
                   THEN [coupons EXCEPT ![code].used_count = @ + 1]
                   ELSE coupons
        coupon == Coupon(CouponData(code))
        discount == calculate_discount(coupon, amount, plan_id)
    IN  IF code \notin CouponCodes \/ ~coupons[code].exists
        THEN [ok |-> FALSE, msg |-> "Invalid coupon code", discount |-> 0,
              coupons |-> coupons]
        ELSE IF ~is_valid(coupon)[1]
            THEN [ok |-> FALSE, msg |-> is_valid(coupon)[2], discount |-> 0,
                  coupons |-> coupons]
        ELSE IF discount = 0
            THEN [ok |-> FALSE, msg |-> "Coupon not applicable for this purchase",
                  discount |-> 0, coupons |-> counted]
        ELSE [ok |-> TRUE, msg |-> "Coupon applied successfully",
              discount |-> discount, coupons |-> counted]

\* validate_and_apply_coupon_for_partner: what it returns and the coupons
\* collection it leaves.
validate_and_apply_coupon_for_partner(code, amount, plan_id, partner_id) ==
    LET Refuse(m) == [ok |-> FALSE, msg |-> m, discount |-> 0, coupons |-> coupons]
    IN  IF code \notin CouponCodes \/ ~coupons[code].exists
        THEN Refuse("Invalid coupon code")
        ELSE
        LET coupon == Coupon(CouponData(code))
            valid == is_valid(coupon)
            partner == IF partner_id \in UserIds /\ users[partner_id].exists
                          /\ users[partner_id].role = "PARTNER"
                       THEN users[partner_id] ELSE NoUser
            limited == partner_id # NoneId /\ hasattr(coupon, "partner_limits")
                       /\ DOMAIN coupon.partner_limits # {}
            discount == calculate_discount(coupon, amount, plan_id)
        IN  IF ~valid[1] THEN Refuse(valid[2])
            ELSE IF partner_id # NoneId /\ partner.exists
                    /\ partner.assigned_coupons # {}
                    /\ ObjectId(coupon._id) \notin partner.assigned_coupons
                THEN Refuse("This coupon is not available for your account")
            ELSE IF limited /\ partner_id \in DOMAIN coupon.partner_limits
                    /\ coupon.partner_limits[partner_id].used
                         >= coupon.partner_limits[partner_id].limit
                THEN Refuse("Partner usage limit exceeded for this coupon")
            ELSE IF discount = 0
                THEN Refuse("Coupon not applicable for this purchase")
            ELSE [ok |-> TRUE, msg |-> "Coupon applied successfully",
                  discount |-> discount,
                  coupons |->
                    [coupons EXCEPT
                       ![code].used_count = @ + 1,
                       ![code].partner_limits =
                          IF limited /\ partner_id \in DOMAIN coupon.partner_limits
                          THEN [@ EXCEPT ![partner_id].used = @ + 1]
                          ELSE @]]

\* validate_and_apply_coupon(code, amount, plan_id): the same, for no partner.
validate_and_apply_coupon(code, amount, plan_id) ==
    validate_and_apply_coupon_for_partner(code, amount, plan_id, NoneId)

\* coupon_controller.api_validate: the JSON it answers and the coupons it leaves.
api_validate(code, amount, plan_id) ==
    LET r == validate_and_apply_coupon(code, amount, plan_id)
    IN  [success |-> r.ok, message |-> r.msg, discount |-> r.discount,
         final_amount |-> IF r.ok THEN amount - r.discount ELSE amount,
         coupons |-> r.coupons]

\* CouponService.create_coupon_with_limits(coupon_data, created_by_id);
\* coupon_data is what coupon_controller.create builds from the form
\* (is_active True, numbers unvalidated), partner_limits maps partner -> limit.
create_coupon_with_limits(coupon_data, created_by_id) ==
    IF coupons[coupon_data.code].exists
    THEN [ok |-> FALSE, msg |-> "Coupon code already exists", coupons |-> coupons,
          activities |-> activities]
    ELSE [ok |-> TRUE, msg |-> coupon_data.code,
          activities |-> log_activity(created_by_id, "COUPON_CREATED"),
          coupons |-> [coupons EXCEPT ![coupon_data.code] =
             [exists |-> TRUE,
              discount_type |-> coupon_data.discount_type,
              discount_value |-> coupon_data.discount_value,
              min_purchase_amount |-> coupon_data.min_purchase_amount,
              max_discount_amount |-> coupon_data.max_discount_amount,
              usage_limit |-> coupon_data.usage_limit,
              used_count |-> 0,
              valid_from |-> IF hasattr(coupon_data, "valid_from")
                                THEN coupon_data.valid_from ELSE now,
              valid_until |-> coupon_data.valid_until,
              is_active |-> TRUE,
              applicable_plans |-> {ObjectId(pid) : pid \in coupon_data.applicable_plans},
              partner_limits |->
                 [q \in DOMAIN coupon_data.partner_limits |->
                     [limit |-> coupon_data.partner_limits[q], used |-> 0]]]]]

\* CouponService.create_coupon: create_coupon_with_limits.
create_coupon(coupon_data, created_by_id) ==
    create_coupon_with_limits(coupon_data, created_by_id)

CreateCoupon(coupon_data, created_by_id) ==
    LET r == create_coupon(coupon_data, created_by_id)
    IN  /\ coupons' = r.coupons
        /\ activities' = r.activities
        /\ UNCHANGED <<users, plans, form_links, forms, pdf_files, now, registration_links, liveVars>>

\* CouponService.toggle_coupon_status(coupon_id, updated_by_id).
toggle_coupon_status(code, updated_by_id) ==
    IF ~coupons[code].exists
    THEN [ok |-> FALSE, msg |-> "Coupon not found", coupons |-> coupons,
          activities |-> activities]
    ELSE [ok |-> TRUE,
          msg |-> IF ~coupons[code].is_active THEN "Coupon activated successfully"
                  ELSE "Coupon deactivated successfully",
          coupons |-> [coupons EXCEPT ![code].is_active = ~@],
          activities |-> log_activity(updated_by_id, "COUPON_STATUS_CHANGE")]

ToggleCouponStatus(code, updated_by_id) ==
    LET r == toggle_coupon_status(code, updated_by_id)
    IN  /\ coupons' = r.coupons
        /\ activities' = r.activities
        /\ UNCHANGED <<users, plans, form_links, forms, pdf_files, now, registration_links, liveVars>>

\* A POST to /coupons/api/validate.
ApiValidate(code, amount, plan_id) ==
    /\ coupons[code].used_count < MaxUsed
    /\ coupons' = api_validate(code, amount, plan_id).coupons
    /\ UNCHANGED <<users, plans, form_links, forms, pdf_files, activities, now, registration_links, liveVars>>

\* A call of validate_and_apply_coupon_for_partner.
ValidateAndApplyCouponForPartner(code, amount, plan_id, partner_id) ==
    /\ coupons[code].used_count < MaxUsed
    /\ coupons' = validate_and_apply_coupon_for_partner(
                      code, amount, plan_id, partner_id).coupons
    /\ UNCHANGED <<users, plans, form_links, forms, pdf_files, activities, now, registration_links, liveVars>>

\* ------------------------------------------------------------------ plans
\* calculate_plan_expiry: utcnow() + the plan's period.
calculate_plan_expiry(plan) == now + plan.period_days

\* utils.helpers.check_partner_pdf_limit(partner_id): (can_assign, message).
check_partner_pdf_limit(partner_id) ==
    IF partner_id \in UserIds /\ users[partner_id].exists
       /\ users[partner_id].pdf_generated >= users[partner_id].pdf_limit
    THEN <<FALSE, "Partner PDF limit reached">>
    ELSE <<TRUE, "OK">>

\* PlanService.toggle_plan_status(plan_id, updated_by_id).
toggle_plan_status(plan_id, updated_by_id) ==
    IF ~(plan_id \in PlanIds /\ plans[plan_id].exists)
    THEN [ok |-> FALSE, msg |-> "Plan not found", plans |-> plans,
          activities |-> activities]
    ELSE [ok |-> TRUE,
          msg |-> IF ~plans[plan_id].is_active THEN "Plan activated successfully"
                  ELSE "Plan deactivated successfully",
          plans |-> [plans EXCEPT ![plan_id].is_active = ~@],
          activities |-> log_activity(updated_by_id, "PLAN_STATUS_CHANGE")]

TogglePlanStatus(plan_id, updated_by_id) ==
    LET r == toggle_plan_status(plan_id, updated_by_id)
    IN  /\ plans' = r.plans
        /\ activities' = r.activities
        /\ UNCHANGED <<users, coupons, form_links, forms, pdf_files, now, registration_links, liveVars>>

\* PlanService.delete_plan(plan_id, deleted_by_id): a soft delete, refused
\* while a user holds the plan; the update always writes updated_at, so an
\* existing plan counts as modified.
delete_plan(plan_id, deleted_by_id) ==
    IF \E u \in UserIds : users[u].exists /\ users[u].plan_id = plan_id
    THEN [ok |-> FALSE, msg |-> "Cannot delete plan", plans |-> plans,
          activities |-> activities]
    ELSE IF plan_id \in PlanIds /\ plans[plan_id].exists
        THEN [ok |-> TRUE, msg |-> "Plan deleted successfully",
              plans |-> [plans EXCEPT ![plan_id].is_active = FALSE],
              activities |-> log_activity(deleted_by_id, "PLAN_DELETED")]
    ELSE [ok |-> FALSE, msg |-> "Failed to delete plan", plans |-> plans,
          activities |-> activities]

DeletePlan(plan_id, deleted_by_id) ==
    LET r == delete_plan(plan_id, deleted_by_id)
    IN  /\ plans' = r.plans
        /\ activities' = r.activities
        /\ UNCHANGED <<users, coupons, form_links, forms, pdf_files, now, registration_links, liveVars>>

\* A test that never sees a running plan.
HasNoPlanEver(agent) == FALSE

\* The agent already holds a plan that has not expired.
HasActivePlan(agent) ==
    /\ agent.plan_id # NoneId
    /\ agent.plan_expiry_date # NoneNum
    /\ agent.plan_expiry_date > now

\* An assignment that applies the coupon before it asks for the partner's
\* PDF limit.
assign_plan_coupon_first(agent_id, plan_id, assigned_by_id, coupon_code) ==
    LET Refuse(m, cps) == [ok |-> FALSE, msg |-> m, users |-> users, coupons |-> cps,
                           activities |-> activities]
        agent == users[agent_id]
        plan == plans[plan_id]
        limit == check_partner_pdf_limit(agent.partner_id)
        applied == IF coupon_code # NoneId
                   THEN validate_and_apply_coupon_for_partner(
                            coupon_code, plan.price, plan_id,
                            IF agent.partner_id # NoneId THEN agent.partner_id
                            ELSE assigned_by_id)
                   ELSE [ok |-> TRUE, msg |-> "", discount |-> 0, coupons |-> coupons]
    IN  IF ~(agent.exists /\ agent.role = "AGENT") THEN Refuse("Agent not found", coupons)
        ELSE IF agent.approval_status # "APPROVED" \/ ~agent.is_active
                \/ HasActivePlan(agent)
            THEN Refuse("Agent cannot take a plan", coupons)
        ELSE IF ~(plan_id \in PlanIds /\ plan.exists /\ plan.is_active)
            THEN Refuse("Plan not found or inactive", coupons)
        ELSE IF ~applied.ok THEN Refuse("Coupon error: " \o applied.msg, coupons)
        ELSE IF agent.partner_id # NoneId /\ ~limit[1]
            THEN Refuse(limit[2], applied.coupons)
        ELSE [ok |-> TRUE, msg |-> "Plan assigned successfully to agent",
              coupons |-> applied.coupons,
              activities |-> log_activity(assigned_by_id, "PLAN_ASSIGNED"),
              users |-> [users EXCEPT
                 ![agent_id].plan_id = plan_id,
                 ![agent_id].plan_expiry_date = calculate_plan_expiry(plan),
                 ![agent_id].agent_pdf_limit = plan.pdf_limit,
                 ![agent_id].agent_pdf_generated = 0,
                 ![agent_id].plan_price_paid = plan.price - applied.discount,
                 ![agent_id].plan_coupon_used = coupon_code]]

\* UserService.assign_plan_to_agent(agent_id, plan_id, assigned_by_id, coupon_code);
\* the assigner is the logged-in user (current_user).
assign_plan_to_agent(agent_id, plan_id, assigned_by_id, coupon_code) ==
    LET Refuse(m) == [ok |-> FALSE, msg |-> m, users |-> users, coupons |-> coupons,
                      activities |-> activities]
        agent == users[agent_id]
        plan == plans[plan_id]
        assigner == users[assigned_by_id]
        limit == check_partner_pdf_limit(agent.partner_id)
        validator_id == IF agent.partner_id # NoneId THEN agent.partner_id
                        ELSE assigned_by_id
        applied == validate_and_apply_coupon_for_partner(
                       coupon_code, plan.price, plan_id, validator_id)
        final_price == IF coupon_code # NoneId THEN plan.price - applied.discount
                       ELSE plan.price
    IN  IF ~(agent.exists /\ agent.role = "AGENT") THEN Refuse("Agent not found")
        ELSE IF agent.approval_status # "APPROVED"
            THEN Refuse("Agent must be approved before assigning a plan")
        ELSE IF ~agent.is_active
            THEN Refuse("Agent must be active to assign a plan")
        ELSE IF HasActivePlan(agent)
            THEN Refuse("Agent already has an active plan")
        ELSE IF ~(plan_id \in PlanIds /\ plan.exists /\ plan.is_active)
            THEN Refuse("Plan not found or inactive")
        ELSE IF ~is_super_admin(assigner)
                /\ assigner.exists /\ assigner.role = "PARTNER"
                /\ assigner.assigned_plans # {}
                /\ ObjectId(plan_id) \notin assigner.assigned_plans
            THEN Refuse("This plan is not assigned to your account")
        ELSE IF agent.partner_id # NoneId /\ ~limit[1]
            THEN Refuse(limit[2])
        ELSE IF coupon_code # NoneId /\ ~applied.ok
            THEN Refuse("Coupon error: " \o applied.msg)
        ELSE [ok |-> TRUE, msg |-> "Plan assigned successfully to agent",
              coupons |-> IF coupon_code # NoneId THEN applied.coupons ELSE coupons,
              activities |-> log_activity(assigned_by_id, "PLAN_ASSIGNED"),
              users |-> [users EXCEPT
                 ![agent_id].plan_id = plan_id,
                 ![agent_id].plan_expiry_date = calculate_plan_expiry(plan),
                 ![agent_id].agent_pdf_limit = plan.pdf_limit,
                 ![agent_id].agent_pdf_generated = 0,
                 ![agent_id].plan_price_paid = final_price,
                 ![agent_id].plan_coupon_used = coupon_code]]

AssignPlanToAgent(agent_id, plan_id, assigned_by_id, coupon_code) ==
    LET r == assign_plan_to_agent(agent_id, plan_id, assigned_by_id, coupon_code)
    IN  /\ coupon_code # NoneId => coupons[coupon_code].used_count < MaxUsed
        /\ users' = r.users
        /\ coupons' = r.coupons
        /\ activities' = r.activities
        /\ UNCHANGED <<plans, form_links, forms, pdf_files, now, registration_links, liveVars>>

\* ------------------------------------------------------------------ forms
\* A limit test that lets the counter pass the limit by one.
PdfLimitPassed(agent) == agent.agent_pdf_generated > agent.agent_pdf_limit

\* The agent's PDF counter has reached the agent's limit.
PdfLimitReached(agent) == agent.agent_pdf_generated >= agent.agent_pdf_limit

\* A validity test that lets one submission too many through.
link_is_valid_late(link) ==
    IF ~link.is_active THEN <<FALSE, "Link is not active">>
    ELSE IF link.expires_at # NoneNum /\ now > link.expires_at
        THEN <<FALSE, "Link has expired">>
    ELSE IF Truthy(link.usage_limit) /\ link.usage_count > link.usage_limit
        THEN <<FALSE, "Link usage limit exceeded">>
    ELSE <<TRUE, "Valid">>

\* FormLink.is_valid: (valid, message).
link_is_valid(link) ==
    IF ~link.is_active THEN <<FALSE, "Link is not active">>
    ELSE IF link.expires_at # NoneNum /\ now > link.expires_at
        THEN <<FALSE, "Link has expired">>
    ELSE IF Truthy(link.usage_limit) /\ link.usage_count >= link.usage_limit
        THEN <<FALSE, "Link usage limit exceeded">>
    ELSE <<TRUE, "Valid">>

\* The link document create_form_link inserts.
FormLinkDoc(agent_id, usage_limit, expires_at) ==
    [exists |-> TRUE, agent_id |-> agent_id, is_active |-> TRUE,
     usage_count |-> 0, usage_limit |-> usage_limit, expires_at |-> expires_at]

\* HealthInsuranceFormService.create_form_link(agent_id, language, expires_days,
\* usage_limit); the new link takes the token `token`.
create_form_link(agent_id, expires_days, usage_limit, token) ==
    LET Refuse(m) == [ok |-> FALSE, msg |-> m, form_links |-> form_links,
                      activities |-> activities]
    IN  IF ~users[agent_id].exists THEN Refuse("Agent not found")
        ELSE IF users[agent_id].plan_id = NoneId \/ PdfLimitReached(users[agent_id])
            THEN Refuse("Agent has reached PDF generation limit")
        ELSE [ok |-> TRUE, msg |-> token,
              activities |-> log_activity(agent_id, "FORM_LINK_CREATED"),
              form_links |-> [form_links EXCEPT ![token] =
                 FormLinkDoc(agent_id, usage_limit,
                             IF expires_days # 0 THEN now + expires_days
                             ELSE NoneNum)]]

CreateFormLink(agent_id, expires_days, usage_limit) ==
    LET token == FirstFree(TokenOrder, form_links)
        r == create_form_link(agent_id, expires_days, usage_limit, token)
    IN  /\ token # NoneId
        /\ form_links' = r.form_links
        /\ activities' = r.activities
        /\ UNCHANGED <<users, plans, coupons, forms, pdf_files, now, registration_links, liveVars>>

\* HealthInsuranceFormService.submit_form(form_data, token); the new form takes
\* the id `form_id`.
submit_form(token, form_id) ==
    LET Refuse(m) == [ok |-> FALSE, msg |-> m, form_links |-> form_links,
                      forms |-> forms, activities |-> activities]
        link == form_links[token]
        valid == link_is_valid(link)
    IN  IF ~(token \in Tokens /\ link.exists) THEN Refuse("Invalid form link")
        ELSE IF ~valid[1] THEN Refuse(valid[2])
        ELSE IF PdfLimitReached(users[link.agent_id])
            THEN Refuse("Agent has reached PDF generation limit")
        ELSE [ok |-> TRUE, msg |-> form_id,
              activities |-> log_activity(link.agent_id, "FORM_SUBMITTED"),
              forms |-> [forms EXCEPT ![form_id] =
                 [exists |-> TRUE, agent_id |-> link.agent_id,
                  form_link_id |-> token,
                  pdf_generated |-> FALSE, pdf_filename |-> NoneId]],
              form_links |-> [form_links EXCEPT
                 ![token].usage_count = @ + 1,
                 ![token].is_active = IF link.usage_limit = 1 THEN FALSE ELSE @]]

SubmitForm(token) ==
    LET form_id == FirstFree(FormIdOrder, forms)
        r == submit_form(token, form_id)
    IN  /\ form_id # NoneId
        /\ forms' = r.forms
        /\ form_links' = r.form_links
        /\ activities' = r.activities
        /\ UNCHANGED <<users, plans, coupons, pdf_files, now, registration_links, liveVars>>

\* HealthInsuranceFormService.toggle_link_status(link_id, agent_id); the token
\* stands for the link's id.
toggle_link_status(token, agent_id) ==
    IF ~(form_links[token].exists /\ form_links[token].agent_id = agent_id)
    THEN [ok |-> FALSE, form_links |-> form_links]
    ELSE [ok |-> TRUE,
          form_links |-> [form_links EXCEPT ![token].is_active = ~@]]

ToggleLinkStatus(token, agent_id) ==
    /\ form_links' = toggle_link_status(token, agent_id).form_links
    /\ UNCHANGED <<users, plans, coupons, forms, pdf_files, activities, now,
                   registration_links, liveVars>>

\* HealthInsurancePDFGenerator.generate_pdf: it returns a file name, returns
\* nothing, or raises.
PdfGeneratorOutcomes == {"file", "none", "raise"}

\* The file a form's PDF is written to.
PdfFileName(form_id) == form_id

\* HealthInsuranceFormService.generate_pdf(form_id, agent_id), `gen` being what
\* the PDF generator does when it is called.
generate_pdf(form_id, agent_id, gen) ==
    LET Refuse(m) == [ok |-> FALSE, msg |-> m, users |-> users, forms |-> forms,
                      pdf_files |-> pdf_files, activities |-> activities]
        form == forms[form_id]
        agent == users[agent_id]
        filename == PdfFileName(form_id)
        counted == [users EXCEPT ![agent_id].agent_pdf_generated = @ + 1]
    IN  IF ~(form_id \in FormIds /\ form.exists) THEN Refuse("Form not found")
        ELSE IF form.agent_id # agent_id THEN Refuse("Unauthorized access")
        ELSE IF ~agent.exists THEN Refuse("Agent not found")
        ELSE IF PdfLimitReached(agent) THEN Refuse("PDF generation limit reached")
        ELSE IF form.pdf_generated /\ form.pdf_filename # NoneId
                /\ form.pdf_filename \in pdf_files
            THEN [Refuse(form.pdf_filename) EXCEPT !.ok = TRUE]
        ELSE IF gen = "raise" THEN Refuse("PDF generation error")
        ELSE IF gen = "none" THEN Refuse("PDF generation failed")
        ELSE [ok |-> TRUE, msg |-> filename,
              pdf_files |-> pdf_files \cup {filename},
              forms |-> [forms EXCEPT ![form_id].pdf_generated = TRUE,
                                      ![form_id].pdf_filename = filename],
              users |-> IF agent.partner_id # NoneId
                        THEN [counted EXCEPT ![agent.partner_id].pdf_generated = @ + 1]
                        ELSE counted,
              activities |-> log_activity(agent_id, "PDF_GENERATED")]

GeneratePdf(form_id, agent_id, gen) ==
    LET r == generate_pdf(form_id, agent_id, gen)
    IN  /\ users' = r.users
        /\ forms' = r.forms
        /\ pdf_files' = r.pdf_files
        /\ activities' = r.activities
        /\ UNCHANGED <<plans, coupons, form_links, now, registration_links, liveVars>>

\* A generated file is removed from static/generated_pdfs (outside the service).
RemovePdfFile(f) ==
    /\ f \in pdf_files
    /\ pdf_files' = pdf_files \ {f}
    /\ UNCHANGED <<users, plans, coupons, form_links, forms, activities, now, registration_links, liveVars>>

\* Time passes.
Tick ==
    /\ now < MaxTime
    /\ now' = now + 1
    /\ UNCHANGED <<users, plans, coupons, form_links, forms, pdf_files, activities, registration_links, liveVars>>

\* ------------------------------------------------------------------ accounts
\* UserService.create_agent_registration_link(partner_id, created_by_id,
\* created_by_role); the new link takes the token `token`.
create_agent_registration_link(partner_id, created_by_id, token) ==
    [token |-> token,
     registration_links |-> [registration_links EXCEPT ![token] =
        [exists |-> TRUE, partner_id |-> partner_id, created_by |-> created_by_id,
         used |-> FALSE, used_by |-> NoneId]],
     activities |-> log_activity(created_by_id, "REGISTRATION_LINK_CREATED")]

\* user_controller.generate_registration_link: a super admin names the
\* partner, a partner creates links for itself.
GenerateRegistrationLink(current_user, partner_id) ==
    LET token == FirstFree(RegTokenOrder, registration_links)
        r == create_agent_registration_link(
                 IF is_super_admin(users[current_user]) THEN partner_id
                 ELSE current_user,
                 current_user, token)
    IN  /\ token # NoneId
        /\ users[current_user].exists
        /\ is_super_admin(users[current_user]) \/ is_partner(users[current_user])
        /\ registration_links' = r.registration_links
        /\ activities' = r.activities
        /\ UNCHANGED <<users, plans, coupons, form_links, forms, pdf_files, now, liveVars>>

\* A link test that takes a used link once more.
LinkUsableAgain(link) == link.exists

\* registration_links.find_one({'token': token, 'used': False}) found a link.
LinkUsable(link) == link.exists /\ ~link.used

\* users.find_one({'$or': [{'username': ...}, {'email': ...}]}) found a user.
\* A search that looks at the user name only.
UsernameExists(username, email) ==
    \E u \in UserIds : users[u].exists /\ users[u].username = username

\* find_one({'$or': [{'username': ...}, {'email': ...}]}) finds a document.
UsernameOrEmailExists(username, email) ==
    \E u \in UserIds :
        /\ users[u].exists
        /\ users[u].username = username \/ users[u].email = email

\* UserService.register_agent_via_link(agent_data, token).
register_agent_via_link(agent_data, token) ==
    LET Refuse(m) == [ok |-> FALSE, msg |-> m, users |-> users,
                      registration_links |-> registration_links,
                      activities |-> activities]
        link == registration_links[token]
        partner == users[link.partner_id]
        inserted_id == InsertedId(agent_data.username)
        agent == [RegisteredAgentDoc(link.partner_id,
                     IF partner.exists THEN partner.requires_double_approval
                     ELSE NoUser.requires_double_approval)
                  EXCEPT !.password = hash_password(agent_data.password),
                         !.username = agent_data.username,
                         !.email = agent_data.email,
                         !.registered_via_link = token]
    IN  IF ~(token \in RegTokens /\ LinkUsable(link))
        THEN Refuse("Invalid or expired registration link")
        ELSE IF UsernameOrEmailExists(agent_data.username, agent_data.email)
            THEN Refuse("Username or email already exists")
        ELSE [ok |-> TRUE, msg |-> inserted_id,
              users |-> [users EXCEPT ![inserted_id] = agent],
              registration_links |-> [registration_links EXCEPT
                 ![token].used = TRUE, ![token].used_by = inserted_id],
              activities |-> log_activity(inserted_id, "AGENT_REGISTERED")]

RegisterAgentViaLink(agent_data, token) ==
    LET r == register_agent_via_link(agent_data, token)
    IN  /\ r.ok => r.msg # NoneId
        /\ users' = r.users
        /\ registration_links' = r.registration_links
        /\ activities' = r.activities
        /\ UNCHANGED <<plans, coupons, form_links, forms, pdf_files, now, liveVars>>

\* An ownership test that every agent passes.
AnyAgent(user, caller_id) == TRUE

\* str(user.partner_id) == approver_id: the agent belongs to the caller.
OwnAgent(user, caller_id) == user.partner_id = caller_id

\* A partner's approval that approves outright.
PartnerApprovesOutright(user) == "APPROVED"

\* The status a partner's approval gives an agent.
PartnerApprovalStatus(user) ==
    IF ~user.requires_double_approval THEN "APPROVED" ELSE "PARTNER_APPROVED"

\* The status a super admin's approval gives a user.
SuperAdminApprovalStatus(user) ==
    IF user.role = "PARTNER" \/ (user.role = "AGENT" /\ user.partner_approved)
    THEN "APPROVED"
    ELSE IF user.role = "AGENT" /\ ~user.requires_double_approval THEN "APPROVED"
    ELSE user.approval_status

\* UserService.approve_user(user_id, approver_id, approver_role).
approve_user(user_id, approver_id, approver_role) ==
    LET Refuse(m) == [ok |-> FALSE, msg |-> m, users |-> users,
                      activities |-> activities]
        user == User(users[user_id])
    IN  IF ~users[user_id].exists THEN Refuse("User not found")
        ELSE IF approver_role = "PARTNER" /\ user.role = "AGENT"
            THEN IF ~OwnAgent(user, approver_id)
                 THEN Refuse("You can only approve your own agents")
                 ELSE [ok |-> TRUE, msg |-> "User approved successfully",
                       users |-> [users EXCEPT
                          ![user_id].partner_approved = TRUE,
                          ![user_id].approval_status = PartnerApprovalStatus(user)],
                       activities |-> log_activity(approver_id, "USER_APPROVED")]
        ELSE IF approver_role = "SUPER_ADMIN"
            THEN [ok |-> TRUE, msg |-> "User approved successfully",
                  users |-> [users EXCEPT
                     ![user_id].super_admin_approved = TRUE,
                     ![user_id].approval_status = SuperAdminApprovalStatus(user)],
                  activities |-> log_activity(approver_id, "USER_APPROVED")]
        ELSE Refuse("Invalid approval combination")

\* user_controller.approve_user: the caller's own id and role are passed on.
ApproveUser(user_id, current_user) ==
    LET r == approve_user(user_id, current_user, users[current_user].role)
    IN  /\ users[current_user].exists
        /\ users' = r.users
        /\ activities' = r.activities
        /\ UNCHANGED <<plans, coupons, form_links, forms, pdf_files, now,
                       registration_links, liveVars>>

\* UserService.reject_user(user_id, rejector_id, rejector_role, reason).
reject_user(user_id, rejector_id, rejector_role, reason) ==
    LET Refuse(m) == [ok |-> FALSE, msg |-> m, users |-> users,
                      activities |-> activities]
        user == User(users[user_id])
    IN  IF ~users[user_id].exists THEN Refuse("User not found")
        ELSE IF rejector_role = "PARTNER" /\ user.role = "AGENT"
                /\ ~OwnAgent(user, rejector_id)
            THEN Refuse("You can only reject your own agents")
        ELSE IF ~(rejector_role = "PARTNER" /\ user.role = "AGENT")
                /\ rejector_role # "SUPER_ADMIN"
            THEN Refuse("Insufficient permissions")
        ELSE [ok |-> TRUE, msg |-> "User rejected",
              users |-> [users EXCEPT
                 ![user_id].approval_status = "REJECTED",
                 ![user_id].rejection_reason = reason,
                 ![user_id].is_active = FALSE],
              activities |-> log_activity(rejector_id, "USER_REJECTED")]

\* user_controller.reject_user.
RejectUser(user_id, current_user, reason) ==
    LET r == reject_user(user_id, current_user, users[current_user].role, reason)
    IN  /\ users[current_user].exists
        /\ users' = r.users
        /\ activities' = r.activities
        /\ UNCHANGED <<plans, coupons, form_links, forms, pdf_files, now,
                       registration_links, liveVars>>

\* user_controller.toggle_status, open to super admins and partners.
toggle_status(user_id, current_user) ==
    LET user == User(users[user_id])
    IN  IF ~user.exists THEN [users |-> users, activities |-> activities]
        ELSE IF is_partner(users[current_user])
                /\ (user.role # "AGENT" \/ user.partner_id # current_user)
            THEN [users |-> users, activities |-> activities]
        ELSE IF user_id = current_user
            THEN [users |-> users, activities |-> activities]
        ELSE [users |-> [users EXCEPT ![user_id].is_active = ~@],
              activities |-> log_activity(current_user, "USER_STATUS_CHANGE")]

ToggleStatus(user_id, current_user) ==
    LET r == toggle_status(user_id, current_user)
    IN  /\ users[current_user].exists
        /\ is_super_admin(users[current_user]) \/ is_partner(users[current_user])
        /\ users' = r.users
        /\ activities' = r.activities
        /\ UNCHANGED <<plans, coupons, form_links, forms, pdf_files, now,
                       registration_links, liveVars>>

\* User.can_login: an active account whose approval is complete.
can_login(user) == user.is_active /\ user.approval_status = "APPROVED"

\* The message authenticate_user gives an account that may not log in.
LoginRefusal(user) ==
    IF user.approval_status = "REJECTED"
    THEN "Account rejected: " \o
         (IF user.rejection_reason # NoneId /\ user.rejection_reason # ""
          THEN user.rejection_reason ELSE "Contact administrator")
    ELSE IF user.approval_status = "PENDING" THEN "Account pending approval"
    ELSE IF user.approval_status = "PARTNER_APPROVED"
        THEN "Account awaiting super admin approval"
    ELSE "Account not active"

\* AuthService.authenticate_user(username, password): the user it returns
\* (NoneId for None), the message, and the collections it leaves.
authenticate_user(username, password) ==
    LET Refuse(m) == [user |-> NoneId, msg |-> m, users |-> users,
                      activities |-> activities]
        user == User(users[username])
    IN  IF ~(username \in UserIds /\ users[username].exists)
        THEN Refuse("Invalid username or password")
        ELSE IF ~verify_password(password, user.password)
            THEN Refuse("Invalid username or password")
        ELSE IF ~can_login(user) THEN Refuse(LoginRefusal(user))
        ELSE [user |-> username, msg |-> NoneId,
              users |-> [users EXCEPT ![username].last_login = now],
              activities |-> log_activity(username, "LOGIN")]

AuthenticateUser(username, password) ==
    LET r == authenticate_user(username, password)
    IN  /\ users' = r.users
        /\ activities' = r.activities
        /\ UNCHANGED <<plans, coupons, form_links, forms, pdf_files, now,
                       registration_links, liveVars>>

\* ------------------------------------------------------------------ live progress
\* Redis expiry times in clock units of two hours: 7200 s, 10800 s (a key set
\* at t is still there at t + 1 and gone at t + 2) and 86400 s.
TwoHours == 1
ThreeHours == 2
OneDay == 12

\* Field names a client reports: two of the special ones and a form field.
FieldNames == {"form_started", "form_submitted", "name"}

NoProgress ==
    [exists |-> FALSE, agent_id |-> NoneId, status |-> NoneId,
     completed_fields |-> {}, last_update |-> NoneNum, expires_at |-> NoneNum]

NoEntry == [present |-> FALSE, agent_id |-> NoneId, status |-> NoneId,
            last_update |-> NoneNum]

NoAgentForms == [exists |-> FALSE, forms |-> [t \in Tokens |-> NoEntry],
                 expires_at |-> NoneNum]

\* redis_client.get(key): the value, unless the key is absent or has expired.
redis_get(store, key, none) ==
    IF store[key].exists /\ now < store[key].expires_at THEN store[key] ELSE none

\* get_form_progress(token).
get_form_progress(store, token) == redis_get(store, token, NoProgress)

\* f"agent_{agent_id}" and the room of one client (its session id).
AgentRoom(agent_id) == "agent_" \o agent_id
Sid(client) == "sid_" \o client
RoomNames == {AgentRoom(u) : u \in UserIds}

\* _update_agent_active_forms(agent_id, token, progress_data): the agent_forms
\* keys it leaves.
update_agent_active_forms(keys, agent_id, token, progress_data) ==
    LET active == redis_get(keys, agent_id, NoAgentForms).forms
        added == [active EXCEPT ![token] =
                    [present |-> TRUE, agent_id |-> agent_id,
                     status |-> progress_data.status,
                     last_update |-> progress_data.last_update]]
        kept == [t \in Tokens |->
                    IF added[t].present /\ added[t].last_update # NoneNum
                       /\ now - added[t].last_update > TwoHours
                    THEN NoEntry ELSE added[t]]
    IN  [keys EXCEPT ![agent_id] =
            [exists |-> TRUE, forms |-> kept, expires_at |-> now + ThreeHours]]

\* update_form_progress(token, field_name, field_value): the progress data it
\* returns and the keys it leaves (Redis is up).
update_form_progress(token, field_name, field_value) ==
    LET current == get_form_progress(progress, token)
        data == IF current.exists THEN current
                ELSE [NoProgress EXCEPT !.exists = TRUE, !.status = "active"]
        \* completed_fields[field_name] = field_value
        fields == {f \in data.completed_fields : f[1] # field_name}
                     \cup {<<field_name, field_value>>}
        new == IF field_name \in {"form_started", "form_restored"}
               THEN [data EXCEPT !.status = "active", !.last_update = now,
                                 !.expires_at = now + TwoHours]
               ELSE IF field_name = "form_submitted"
               THEN [data EXCEPT !.status = "completed", !.last_update = now,
                                 !.expires_at = now + OneDay]
               ELSE [data EXCEPT
                       !.completed_fields = fields,
                       !.last_update = now,
                       !.status = IF \E f \in fields : f[2] # "" THEN "active"
                                  ELSE @,
                       !.expires_at = now + TwoHours]
    IN  [progress_data |-> new,
         progress |-> [progress EXCEPT ![token] = new],
         agent_forms |-> IF new.agent_id # NoneId
                         THEN update_agent_active_forms(agent_forms, new.agent_id,
                                                        token, new)
                         ELSE agent_forms]

\* The agent_id of an existing session is set if it is missing or different:
\* the common part of start_form_session and ensure_agent_id_in_progress.
SetAgentId(store, keys, existing, token, agent_id) ==
    LET new == [existing EXCEPT !.agent_id = agent_id, !.last_update = now,
                                !.expires_at = now + TwoHours]
    IN  [progress |-> [store EXCEPT ![token] = new],
         agent_forms |-> update_agent_active_forms(keys, agent_id, token, new)]

\* start_form_session(token, agent_id).
start_form_session(token, agent_id) ==
    LET existing == get_form_progress(progress, token)
        initial == [exists |-> TRUE, agent_id |-> agent_id, status |-> "started",
                    completed_fields |-> {}, last_update |-> now,
                    expires_at |-> now + TwoHours]
    IN  IF existing.exists
        THEN IF existing.agent_id = NoneId \/ existing.agent_id # agent_id
             THEN SetAgentId(progress, agent_forms, existing, token, agent_id)
             ELSE [progress |-> progress, agent_forms |-> agent_forms]
        ELSE [progress |-> [progress EXCEPT ![token] = initial],
              agent_forms |-> update_agent_active_forms(agent_forms, agent_id,
                                                        token, initial)]

\* ensure_agent_id_in_progress(token, agent_id) over the given keys: whether
\* it changed the data, and the keys it leaves.
ensure_agent_id_in_progress(store, keys, token, agent_id) ==
    LET existing == get_form_progress(store, token)
    IN  IF existing.exists
           /\ (existing.agent_id = NoneId \/ existing.agent_id # agent_id)
        THEN [ok |-> TRUE] @@ SetAgentId(store, keys, existing, token, agent_id)
        ELSE [ok |-> FALSE, progress |-> store, agent_forms |-> keys]

\* complete_form_session(token).
complete_form_session(token) ==
    LET data == get_form_progress(progress, token)
        new == [data EXCEPT !.status = "completed", !.last_update = now,
                            !.expires_at = now + OneDay]
    IN  IF data.exists
        THEN [progress |-> [progress EXCEPT ![token] = new],
              agent_forms |-> IF new.agent_id # NoneId
                              THEN update_agent_active_forms(agent_forms,
                                       new.agent_id, token, new)
                              ELSE agent_forms]
        ELSE [progress |-> progress, agent_forms |-> agent_forms]

\* get_agent_active_forms(agent_id) over the given keys: the tokens of the
\* forms it lists (completed ones only for ten minutes), or, without an
\* agent_forms key, every progress key that names the agent.
get_agent_active_forms(store, keys, agent_id) ==
    LET active == redis_get(keys, agent_id, NoAgentForms)
    IN  IF active.exists
        THEN {t \in Tokens :
                 /\ active.forms[t].present
                 /\ ~(active.forms[t].status = "completed"
                      /\ active.forms[t].last_update # NoneNum
                      /\ now > active.forms[t].last_update)}
        ELSE {t \in Tokens : get_form_progress(store, t).exists
                             /\ get_form_progress(store, t).agent_id = agent_id}

\* socketio.emit(event, ..., room=room) for the event about `token`.
Emission(event, room, token, listed) ==
    [event |-> event, room |-> room, token |-> token, forms |-> listed]

\* The two emissions of a relayed field update.
RelayTo(agent_id, token, store, keys) ==
    { Emission("progress_update", AgentRoom(agent_id), token, {}),
      Emission("active_forms_update", AgentRoom(agent_id), token,
               get_agent_active_forms(store, keys, agent_id)) }

\* handle_form_field_update(data): the keys it leaves and what it emits.
handle_form_field_update(token, field_name, field_value) ==
    LET r == update_form_progress(token, field_name, field_value)
        link == form_links[token]
        e == ensure_agent_id_in_progress(r.progress, r.agent_forms, token,
                                         link.agent_id)
    IN  IF token = "" \/ field_name = ""
        THEN [progress |-> progress, agent_forms |-> agent_forms, emitted |-> {}]
        ELSE IF r.progress_data.agent_id # NoneId
        THEN [progress |-> r.progress, agent_forms |-> r.agent_forms,
              emitted |-> RelayTo(r.progress_data.agent_id, token,
                                  r.progress, r.agent_forms)]
        ELSE IF link.exists /\ link.agent_id # NoneId
        THEN [progress |-> e.progress, agent_forms |-> e.agent_forms,
              emitted |-> IF e.ok /\ get_form_progress(e.progress, token).exists
                          THEN RelayTo(link.agent_id, token, e.progress,
                                       e.agent_forms)
                          ELSE {}]
        ELSE [progress |-> r.progress, agent_forms |-> r.agent_forms,
              emitted |-> {}]

FormFieldUpdate(token, field_name, field_value) ==
    LET r == handle_form_field_update(token, field_name, field_value)
    IN  /\ progress' = r.progress
        /\ agent_forms' = r.agent_forms
        /\ emitted' = r.emitted
        /\ UNCHANGED <<users, plans, coupons, form_links, forms, pdf_files,
                       activities, now, registration_links, rooms>>

\* A join handler that joins the room its request names.
JoinRoomOfRequest(client, data) == AgentRoom(data)

\* The room handle_join_agent_room joins: the current user's own.
JoinRoomOf(client, data) == AgentRoom(client)

\* handle_join_agent_room(data) for the client logged in as `client`.
handle_join_agent_room(client, data) ==
    IF client # Anonymous /\ users[client].exists /\ is_agent(users[client])
    THEN [rooms |-> [rooms EXCEPT ![JoinRoomOf(client, data)] = @ \cup {client}],
          emitted |-> { Emission("joined_room", Sid(client), NoneId, {}),
                        Emission("active_forms_update", Sid(client), NoneId,
                                 get_agent_active_forms(progress, agent_forms,
                                                        client)) }]
    ELSE [rooms |-> rooms,
          emitted |-> {Emission("error", Sid(client), NoneId, {})}]

JoinAgentRoom(client, data) ==
    LET r == handle_join_agent_room(client, data)
    IN  /\ rooms' = r.rooms
        /\ emitted' = r.emitted
        /\ UNCHANGED <<users, plans, coupons, form_links, forms, pdf_files,
                       activities, now, registration_links, progress, agent_forms>>

\* handle_leave_agent_room(data).
LeaveAgentRoom(client) ==
    /\ rooms' = IF client # Anonymous /\ users[client].exists /\ is_agent(users[client])
                THEN [rooms EXCEPT ![AgentRoom(client)] = @ \ {client}]
                ELSE rooms
    /\ emitted' = {}
    /\ UNCHANGED <<users, plans, coupons, form_links, forms, pdf_files,
                   activities, now, registration_links, progress, agent_forms>>

\* health_insurance_controller.public_form, GET: a valid link starts the
\* progress session of its agent.
PublicFormGet(token) ==
    LET link == form_links[token]
        r == start_form_session(token, link.agent_id)
    IN  /\ link.exists /\ link_is_valid(link)[1]
        /\ progress' = r.progress
        /\ agent_forms' = r.agent_forms
        /\ UNCHANGED <<users, plans, coupons, form_links, forms, pdf_files,
                       activities, now, registration_links, rooms, emitted>>

\* health_insurance_controller.public_form, POST: the form is submitted and
\* its session completed; a refused submission shows the form again.
PublicFormPost(token) ==
    LET link == form_links[token]
        form_id == FirstFree(FormIdOrder, forms)
        s == submit_form(token, form_id)
        r == IF s.ok THEN complete_form_session(token)
             ELSE start_form_session(token, link.agent_id)
    IN  /\ link.exists /\ link_is_valid(link)[1]
        /\ form_id # NoneId
        /\ forms' = s.forms
        /\ form_links' = s.form_links
        /\ activities' = s.activities
        /\ progress' = r.progress
        /\ agent_forms' = r.agent_forms
        /\ UNCHANGED <<users, plans, coupons, pdf_files, now,
                       registration_links, rooms, emitted>>

\* No progress keys, no rooms joined, nothing emitted.
InitLive ==
    /\ progress = [t \in Tokens |-> NoProgress]
    /\ agent_forms = [u \in UserIds |-> NoAgentForms]
    /\ rooms = [r \in RoomNames |-> {}]
    /\ emitted = {}

\* ------------------------------------------------------------------ quota model
\* The plans on offer: pdf limits 1 and MaxPdfLimit.
SeedPlans ==
    [p \in PlanIds |->
        IF p = "PlanA"
        THEN [exists |-> TRUE, price |-> 100, pdf_limit |-> 1, is_active |-> TRUE,
              period_days |-> 1]
        ELSE [exists |-> TRUE, price |-> 200, pdf_limit |-> MaxPdfLimit,
              is_active |-> TRUE, period_days |-> 2]]

\* Users of the quota model: the partners, and two approved agents of P1 that
\* hold no plan yet.
QuotaUsers(limit) ==
    [u \in UserIds |->
        IF u \in SuperAdmins THEN SuperAdminDoc
        ELSE IF u = "P1" THEN PartnerDoc(TRUE, limit)
        ELSE IF u = "P2" THEN PartnerDoc(FALSE, limit)
        ELSE [RegisteredAgentDoc("P1", TRUE) EXCEPT
                 !.approval_status = "APPROVED",
                 !.partner_approved = TRUE, !.super_admin_approved = TRUE]]

InitQuota ==
    /\ \E limit \in 1..MaxPdfLimit : users = Seeded(QuotaUsers(limit))
    /\ plans = SeedPlans
    /\ coupons = [c \in CouponCodes |-> NoCoupon]
    /\ form_links = [t \in Tokens |-> NoLink]
    /\ forms = [f \in FormIds |-> NoForm]
    /\ pdf_files = {}
    /\ activities = NoActivity
    /\ now = 0
    /\ registration_links = [t \in RegTokens |-> NoRegLink]
    /\ InitLive

NextQuota ==
    \/ \E a \in Agents, p \in PlanIds, by \in {"P1"} :
          AssignPlanToAgent(a, p, by, NoneId)
    \/ \E a \in Agents : CreateFormLink(a, 0, NoneNum)
    \/ \E t \in Tokens : SubmitForm(t)
    \/ \E f \in FormIds, a \in Agents, g \in PdfGeneratorOutcomes : GeneratePdf(f, a, g)
    \/ \E f \in FormIds : RemovePdfFile(f)
    \/ Tick

SpecQuota == InitQuota /\ [][NextQuota]_vars

\* ------------------------------------------------------------------ quota claims
\* What generate_pdf leaves of the agent's counter, the partner's counter and
\* the form is what it found.
GeneratePdfChangesNothing(r, form_id, agent_id) ==
    /\ r.users[agent_id].agent_pdf_generated = users[agent_id].agent_pdf_generated
    /\ \A p \in Partners : r.users[p].pdf_generated = users[p].pdf_generated
    /\ r.forms = forms

\* C1 (as amended): no agent's agent_pdf_generated ever exceeds its
\* agent_pdf_limit; generate_pdf called by an agent whose counter has reached
\* the limit never succeeds in generating and changes neither the agent's
\* counter, the partner's counter nor the form, and for an existing form of
\* that agent it returns 'PDF generation limit reached'.
C1_AgentPdfQuota ==
    /\ \A a \in Agents : users[a].agent_pdf_generated <= users[a].agent_pdf_limit
    /\ \A a \in Agents, f \in FormIds, g \in PdfGeneratorOutcomes :
          LET r == generate_pdf(f, a, g)
          IN  PdfLimitReached(users[a]) =>
                 /\ ~r.ok
                 /\ GeneratePdfChangesNothing(r, f, a)
                 /\ (forms[f].exists /\ forms[f].agent_id = a)
                       => r.msg = "PDF generation limit reached"

\* C1 witness: an agent has used up a plan's limit by generating, and still
\* holds a submitted form without a PDF, for which generate_pdf is refused.
C1_Witness ==
    \E a \in Agents, f \in FormIds :
        /\ users[a].agent_pdf_limit > 0
        /\ users[a].agent_pdf_generated = users[a].agent_pdf_limit
        /\ forms[f].exists /\ forms[f].agent_id = a /\ ~forms[f].pdf_generated
        /\ generate_pdf(f, a, "file").msg = "PDF generation limit reached"

\* C1 as stated: every generate_pdf call made when agent_pdf_generated >=
\* agent_pdf_limit, for whatever submitted form, returns 'PDF generation limit
\* reached'.
C1_AsStated ==
    \A a \in Agents, f \in FormIds, g \in PdfGeneratorOutcomes :
        (forms[f].exists /\ PdfLimitReached(users[a])) =>
            generate_pdf(f, a, g).msg = "PDF generation limit reached"

\* C2 as stated: no partner's pdf_generated ever exceeds its pdf_limit (the
\* limit is never changed here), and generate_pdf by an agent of a partner
\* whose counter has reached the limit is refused (it generates and counts
\* nothing).
C2_PartnerPdfQuota ==
    /\ \A p \in Partners : users[p].pdf_generated <= users[p].pdf_limit
    /\ \A a \in Agents, f \in FormIds :
          LET p == users[a].partner_id
          IN  (p \in Partners /\ users[p].pdf_generated >= users[p].pdf_limit)
                 => LET r == generate_pdf(f, a, "file")
                    IN  r.ok => r.users = users

\* ------------------------------------------------------------------ coupon model
\* The coupon forms the super admin submits: a half-price coupon with a usage
\* limit, a percentage above 100 without a cap, a fixed amount with a minimum
\* purchase, an end date and a limit for partner P1, and a capped percentage
\* for plan PlanA with a limit for P1.
CouponForms(code) ==
    { [code |-> code, discount_type |-> "PERCENTAGE", discount_value |-> 50,
       min_purchase_amount |-> 0, max_discount_amount |-> NoneNum,
       usage_limit |-> MaxUsed - 1, valid_until |-> NoneNum,
       applicable_plans |-> {}, partner_limits |-> <<>>],
      [code |-> code, discount_type |-> "PERCENTAGE", discount_value |-> 200,
       min_purchase_amount |-> 0, max_discount_amount |-> NoneNum,
       usage_limit |-> NoneNum, valid_until |-> NoneNum,
       applicable_plans |-> {}, partner_limits |-> <<>>],
      [code |-> code, discount_type |-> "FIXED", discount_value |-> 100,
       min_purchase_amount |-> 200, max_discount_amount |-> NoneNum,
       usage_limit |-> 1, valid_until |-> 1,
       applicable_plans |-> {}, partner_limits |-> [q \in {"P1"} |-> 1]],
      [code |-> code, discount_type |-> "PERCENTAGE", discount_value |-> 100,
       min_purchase_amount |-> 0, max_discount_amount |-> 50,
       usage_limit |-> NoneNum, valid_until |-> NoneNum,
       applicable_plans |-> {"PlanA"}, partner_limits |-> [q \in {"P1"} |-> 1]] }

\* Purchase amounts and the plan a purchase names.
Amounts == {100, 200}
PlanArgs == {NoneId, "PlanA"}

\* Users of the coupon model: the partners, an approved agent of each.
CouponUsers ==
    [u \in UserIds |->
        IF u \in SuperAdmins THEN SuperAdminDoc
        ELSE IF u = "P1" THEN PartnerDoc(TRUE, MaxPdfLimit)
        ELSE IF u = "P2" THEN PartnerDoc(FALSE, MaxPdfLimit)
        ELSE [RegisteredAgentDoc(IF u = "A1" THEN "P1" ELSE "P2", u = "A1") EXCEPT
                 !.approval_status = "APPROVED",
                 !.partner_approved = TRUE, !.super_admin_approved = TRUE]]

InitCoupon ==
    /\ users = Seeded(CouponUsers)
    /\ plans = SeedPlans
    /\ coupons = [c \in CouponCodes |-> NoCoupon]
    /\ form_links = [t \in Tokens |-> NoLink]
    /\ forms = [f \in FormIds |-> NoForm]
    /\ pdf_files = {}
    /\ activities = NoActivity
    /\ now = 0
    /\ registration_links = [t \in RegTokens |-> NoRegLink]
    /\ InitLive

NextCoupon ==
    \/ \E c \in CouponCodes : \E d \in CouponForms(c) : CreateCoupon(d, "SA")
    \/ \E c \in CouponCodes : ToggleCouponStatus(c, "SA")
    \/ \E c \in CouponCodes, m \in Amounts, p \in PlanArgs : ApiValidate(c, m, p)
    \/ \E c \in CouponCodes, m \in Amounts, p \in PlanArgs, q \in Partners :
          ValidateAndApplyCouponForPartner(c, m, p, q)
    \/ \E c \in CouponCodes : AssignPlanToAgent("A1", "PlanA", "P1", c)
    \/ Tick

SpecCoupon == InitCoupon /\ [][NextCoupon]_vars

\* ------------------------------------------------------------------ coupon claims
\* Who may apply a coupon: no partner (validate_and_apply_coupon) or a partner.
PartnerArgs == {NoneId} \cup Partners

\* The coupon is active and `now` lies within its validity period.
CouponOpen(c) ==
    /\ c.is_active
    /\ ~(c.valid_from # NoneNum /\ now < c.valid_from)
    /\ ~(c.valid_until # NoneNum /\ now > c.valid_until)

\* C3 (as amended): a coupon with a usage limit never has used_count above it;
\* once used_count = usage_limit every application is refused with discount 0
\* and leaves the coupon unchanged, the message being 'Coupon usage limit
\* exceeded' whenever the coupon is active and within its validity period; a
\* coupon with usage_limit None is never refused with that message.
C3_CouponUsageCap ==
    \A code \in CouponCodes :
        LET c == coupons[code]
        IN  c.exists =>
            /\ Truthy(c.usage_limit) => c.used_count <= c.usage_limit
            /\ \A m \in Amounts, p \in PlanArgs, q \in PartnerArgs :
                  LET r == validate_and_apply_coupon_for_partner(code, m, p, q)
                  IN  /\ (Truthy(c.usage_limit) /\ c.used_count = c.usage_limit) =>
                          /\ ~r.ok /\ r.discount = 0 /\ r.coupons = coupons
                          /\ CouponOpen(c) => r.msg = "Coupon usage limit exceeded"
                      /\ c.usage_limit = NoneNum =>
                          r.msg # "Coupon usage limit exceeded"

\* C3 witness: a coupon has been applied until used_count = usage_limit, and
\* the next application is refused for usage.
C3_Witness ==
    \E code \in CouponCodes :
        /\ coupons[code].exists
        /\ coupons[code].usage_limit > 1
        /\ coupons[code].used_count = coupons[code].usage_limit
        /\ validate_and_apply_coupon(code, 100, NoneId).msg
              = "Coupon usage limit exceeded"

\* C3 as stated: once used_count = usage_limit every further application
\* returns (False, 'Coupon usage limit exceeded', 0).
C3_AsStated ==
    \A code \in CouponCodes, m \in Amounts, p \in PlanArgs, q \in PartnerArgs :
        LET c == coupons[code]
            r == validate_and_apply_coupon_for_partner(code, m, p, q)
        IN  (c.exists /\ Truthy(c.usage_limit) /\ c.used_count = c.usage_limit) =>
                ~r.ok /\ r.msg = "Coupon usage limit exceeded" /\ r.discount = 0

\* C4 as stated: for a stored coupon with partner_limits[P], a successful
\* validate_and_apply_coupon_for_partner(code, amount, plan, P) adds exactly 1
\* to partner_limits[P].used, a call made when used >= limit is refused with
\* 'Partner usage limit exceeded for this coupon' and changes nothing, and
\* used <= limit always.
C4_PartnerCouponCap ==
    \A code \in CouponCodes :
        coupons[code].exists =>
            \A q \in DOMAIN coupons[code].partner_limits :
                LET pl == coupons[code].partner_limits[q]
                IN  /\ pl.used <= pl.limit
                    /\ \A m \in Amounts, p \in PlanArgs :
                          LET r == validate_and_apply_coupon_for_partner(code, m, p, q)
                          IN  /\ r.ok => r.coupons[code].partner_limits[q].used
                                            = pl.used + 1
                              /\ pl.used >= pl.limit =>
                                    /\ ~r.ok
                                    /\ r.msg = "Partner usage limit exceeded for this coupon"
                                    /\ r.coupons = coupons

\* C5 as stated: for every stored coupon and purchase amount the discount d
\* satisfies 0 <= d <= amount, so neither the price assign_plan_to_agent
\* records nor the final_amount of the validate endpoint is negative.
C5_DiscountBounds ==
    /\ \A code \in CouponCodes, m \in Amounts \cup {0}, p \in PlanArgs :
          coupons[code].exists =>
             LET d == calculate_discount(Coupon(CouponData(code)), m, p)
             IN  /\ 0 <= d /\ d <= m
                 /\ api_validate(code, m, p).final_amount >= 0
    /\ \A a \in Agents :
          users[a].plan_price_paid # NoneNum => users[a].plan_price_paid >= 0

\* ------------------------------------------------------------------ approval model
\* The partners as create_partner leaves them: P1 asks for double approval and
\* waits for the super admin, P2 does not and is approved at once.
CreatedPartnerDoc(rda, limit) ==
    [PartnerDoc(rda, limit) EXCEPT
        !.approval_status = IF rda THEN "PENDING" ELSE "APPROVED",
        !.super_admin_approved = ~rda]

InitApproval ==
    /\ users = Seeded([u \in UserIds |->
                  IF u \in SuperAdmins THEN SuperAdminDoc
                  ELSE IF u = "P1" THEN CreatedPartnerDoc(TRUE, MaxPdfLimit)
                  ELSE IF u = "P2" THEN CreatedPartnerDoc(FALSE, MaxPdfLimit)
                  ELSE NoUser])
    /\ plans = SeedPlans
    /\ coupons = [c \in CouponCodes |-> NoCoupon]
    /\ form_links = [t \in Tokens |-> NoLink]
    /\ forms = [f \in FormIds |-> NoForm]
    /\ pdf_files = {}
    /\ activities = NoActivity
    /\ now = 0
    /\ registration_links = [t \in RegTokens |-> NoRegLink]
    /\ InitLive

\* Passwords tried at login and reasons given for a rejection.
Passwords == {"pw", "bad"}
Reasons == {"", "fraud"}
Admins == SuperAdmins \cup Partners

\* Whom a caller is let loose on: a super admin on the agents and on the
\* waiting partner, everyone else on every user.
ApproveTargets(c) == IF c \in SuperAdmins THEN Agents \cup {"P1"} ELSE UserIds
RejectTargets(c) == IF c \in SuperAdmins THEN Agents ELSE UserIds

NextApproval ==
    \/ \E c \in Partners : GenerateRegistrationLink(c, c)
    \/ \E t \in RegTokens :
          RegisterAgentViaLink([username |-> "A1", email |-> "a1@mail",
                                password |-> "pw"], t)
    \/ \E c \in UserIds : \E u \in ApproveTargets(c) : ApproveUser(u, c)
    \/ \E c \in UserIds, reason \in Reasons :
          \E u \in RejectTargets(c) : RejectUser(u, c, reason)
    \/ \E c \in Admins : ToggleStatus("A1", c)
    \/ \E u \in {"A1", "P1"}, pw \in Passwords : AuthenticateUser(u, pw)

SpecApproval == InitApproval /\ [][NextApproval]_vars

OtherRoles == {"AGENT", "OWNER", "ADMIN", NoneId}

ProgressUsers ==
    [u \in UserIds |->
        IF u \in Agents
        THEN [CouponUsers[u] EXCEPT
                 !.plan_id = "PlanB",
                 !.plan_expiry_date = SeedPlans["PlanB"].period_days,
                 !.agent_pdf_limit = SeedPlans["PlanB"].pdf_limit,
                 !.plan_price_paid = SeedPlans["PlanB"].price]
        ELSE CouponUsers[u]]

\* The clients that connect: the agents, a partner and a visitor.
ProgressClients == Agents \cup {"P1", Anonymous}

\* Agent A1 has created the single-use link t1 (create_form_link).
InitProgress ==
    /\ users = Seeded(ProgressUsers)
    /\ plans = SeedPlans
    /\ coupons = [c \in CouponCodes |-> NoCoupon]
    /\ form_links = [t \in Tokens |->
                        IF t = "t1" THEN FormLinkDoc("A1", 1, NoneNum) ELSE NoLink]
    /\ forms = [f \in FormIds |-> NoForm]
    /\ pdf_files = {}
    /\ activities = NoActivity
    /\ now = 0
    /\ registration_links = [t \in RegTokens |-> NoRegLink]
    /\ InitLive

NextProgress ==
    \/ CreateFormLink("A2", 0, 1)
    \/ \E t \in Tokens : PublicFormGet(t)
    \/ \E t \in Tokens : PublicFormPost(t)
    \/ \E t \in Tokens, f \in FieldNames : FormFieldUpdate(t, f, "v")
    \/ \E c \in ProgressClients : JoinAgentRoom(c, "A1")
    \/ \E c \in ProgressClients : LeaveAgentRoom(c)
    \/ Tick

SpecProgress == InitProgress /\ [][NextProgress]_vars

\* ------------------------------------------------------------------ progress claims
\* The client is sent the emission: directly, or through a room it joined.
Receives(client, e) ==
    \/ e.room = Sid(client)
    \/ e.room \in RoomNames /\ client \in rooms[e.room]

\* The form of token t belongs to the agent.
FormOf(t, agent_id) == form_links[t].exists /\ form_links[t].agent_id = agent_id

\* C10: a form_field_update for token t emits 'progress_update' and
\* 'active_forms_update' only to the room of the agent of t's form link, and
\* nothing when there is no such link; only an authenticated agent is in a
\* room, and only in the room of its own id; so no agent is sent field events
\* of a form of another agent.
C10_RelayIsolation ==
    /\ \A t \in Tokens, f \in FieldNames :
          \A e \in handle_form_field_update(t, f, "v").emitted :
              /\ e.event \in {"progress_update", "active_forms_update"}
              /\ e.token = t
              /\ form_links[t].exists
              /\ e.room = AgentRoom(form_links[t].agent_id)
              /\ \A listed \in e.forms : FormOf(listed, form_links[t].agent_id)
    /\ \A c \in Clients, a \in Agents :
          LET r == handle_join_agent_room(c, a)
          IN  \A room \in RoomNames :
                 r.rooms[room] # rooms[room] =>
                    /\ c # Anonymous /\ is_agent(users[c])
                    /\ room = AgentRoom(c)
                    /\ r.rooms[room] = rooms[room] \cup {c}
    /\ \A room \in RoomNames : \A c \in rooms[room] :
          c \in Agents /\ room = AgentRoom(c)
    /\ \A e \in emitted : \A c \in Clients :
          (e.event = "progress_update" /\ Receives(c, e)) => FormOf(e.token, c)

\* C10 witness: an agent sits in its room while a field update of another
\* agent's form has just been relayed to that other agent's room.
C10_Witness ==
    \E a \in Agents, b \in Agents, t \in Tokens :
        /\ a # b
        /\ a \in rooms[AgentRoom(a)]
        /\ FormOf(t, b)
        /\ Emission("progress_update", AgentRoom(b), t, {}) \in emitted

\* The entry of token t is stored and its last write was a completion (status
\* 'completed' kept for 24 hours), made at its last_update.
JustCompleted(t) ==
    LET data == get_form_progress(progress, t)
    IN  /\ data.exists /\ data.status = "completed"
        /\ data.expires_at = data.last_update + OneDay

\* C11 as stated: every write of a progress entry sets an expiry (2 hours, 24
\* hours on completion), and an entry marked completed stays stored until 24
\* hours after the completion time, whatever event arrives for its token
\* afterwards (a field event, a visit of the form page, a further completion).
C11_ProgressKeyExpiry ==
    /\ \A t \in Tokens :
          progress[t].exists => progress[t].expires_at # NoneNum
    /\ \A t \in Tokens, f \in FieldNames :
          LET done == progress[t].last_update
              r == handle_form_field_update(t, f, "v")
          IN  JustCompleted(t) =>
                 /\ r.progress[t].exists
                 /\ r.progress[t].expires_at >= done + OneDay
    /\ \A t \in Tokens :
          LET done == progress[t].last_update
          IN  (JustCompleted(t) /\ form_links[t].exists) =>
                 /\ start_form_session(t, form_links[t].agent_id).progress[t].expires_at
                       >= done + OneDay
                 /\ complete_form_session(t).progress[t].expires_at >= done + OneDay

\* ------------------------------------------------------------------ link model
\* Agent A1 holds a plan and creates links that expire after a day or never,
\* for one submission or for MaxPdfLimit; the links are submitted to and
\* switched off and on by either agent.
InitLink ==
    /\ users = Seeded(ProgressUsers)
    /\ plans = SeedPlans
    /\ coupons = [c \in CouponCodes |-> NoCoupon]
    /\ form_links = [t \in Tokens |-> NoLink]
    /\ forms = [f \in FormIds |-> NoForm]
    /\ pdf_files = {}
    /\ activities = NoActivity
    /\ now = 0
    /\ registration_links = [t \in RegTokens |-> NoRegLink]
    /\ InitLive

NextLink ==
    \/ \E e \in {0, 1}, n \in {1, MaxPdfLimit} : CreateFormLink("A1", e, n)
    \/ \E t \in Tokens : SubmitForm(t)
    \/ \E t \in Tokens, a \in Agents : ToggleLinkStatus(t, a)
    \/ Tick

SpecLink == InitLink /\ [][NextLink]_vars

\* ------------------------------------------------------------------ link claims
\* The forms submitted through the link of token t.
SubmittedThrough(t) == {f \in FormIds : forms[f].exists /\ forms[f].form_link_id = t}

\* The link is switched on and has not expired.
LinkOpen(link) ==
    link.is_active /\ ~(link.expires_at # NoneNum /\ now > link.expires_at)

\* C12 (as amended): a link with usage_limit n >= 1 never has usage_count
\* above n nor more than n forms submitted through it; a successful
\* submission through a link with usage_limit 1 leaves it switched off with
\* usage_count 1; and once usage_count has reached the limit every
\* submission is refused and changes nothing, whether the link is switched
\* on again or not, with 'Link usage limit exceeded' when the link is
\* switched on and has not expired.
C12_LinkUsageLimit ==
    \A t \in Tokens :
        LET link == form_links[t]
        IN  (link.exists /\ link.usage_limit >= 1) =>
            /\ link.usage_count <= link.usage_limit
            /\ Cardinality(SubmittedThrough(t)) <= link.usage_limit
            /\ \A f \in FormIds :
                  LET r == submit_form(t, f)
                  IN  /\ (r.ok /\ link.usage_limit = 1) =>
                            /\ ~r.form_links[t].is_active
                            /\ r.form_links[t].usage_count = 1
                      /\ link.usage_count >= link.usage_limit =>
                            /\ ~r.ok
                            /\ r.forms = forms /\ r.form_links = form_links
                            /\ LinkOpen(link) => r.msg = "Link usage limit exceeded"
            /\ \A a \in Agents :
                  LET on == toggle_link_status(t, a).form_links
                  IN  on[t].usage_count = link.usage_count
                      /\ on[t].usage_limit = link.usage_limit

\* C12 witness: a single-use link has been used, switched on again by its
\* agent, and refuses the next submission for its usage limit.
C12_Witness ==
    \E t \in Tokens :
        /\ form_links[t].exists /\ form_links[t].usage_limit = 1
        /\ form_links[t].usage_count = 1 /\ form_links[t].is_active
        /\ SubmittedThrough(t) # {}
        /\ \A f \in FormIds : submit_form(t, f).msg = "Link usage limit exceeded"

\* C12 as stated: a used single-use link that was switched on again rejects
\* every later submission with 'Link usage limit exceeded'.
C12_AsStated ==
    \A t \in Tokens, f \in FormIds :
        ( /\ form_links[t].exists /\ form_links[t].usage_limit = 1
          /\ form_links[t].usage_count = 1 /\ form_links[t].is_active )
        => LET r == submit_form(t, f)
           IN  ~r.ok /\ r.msg = "Link usage limit exceeded"

\* ------------------------------------------------------------------ registration model
\* The approved partners and the super admin create registration links;
\* visitors register through them under two user names and two e-mails.
Emails == {"a1@mail", "a2@mail"}
AgentData == [username : Agents, email : Emails, password : {"pw"}]

InitRegister ==
    /\ users = Seeded([u \in UserIds |->
                  IF u \in SuperAdmins THEN SuperAdminDoc
                  ELSE IF u = "P1" THEN PartnerDoc(TRUE, MaxPdfLimit)
                  ELSE IF u = "P2" THEN PartnerDoc(FALSE, MaxPdfLimit)
                  ELSE NoUser])
    /\ plans = SeedPlans
    /\ coupons = [c \in CouponCodes |-> NoCoupon]
    /\ form_links = [t \in Tokens |-> NoLink]
    /\ forms = [f \in FormIds |-> NoForm]
    /\ pdf_files = {}
    /\ activities = NoActivity
    /\ now = 0
    /\ registration_links = [t \in RegTokens |-> NoRegLink]
    /\ InitLive

NextRegister ==
    \/ \E c \in Admins, p \in Partners : GenerateRegistrationLink(c, p)
    \/ \E d \in AgentData, t \in RegTokens : RegisterAgentViaLink(d, t)

SpecRegister == InitRegister /\ [][NextRegister]_vars

\* ------------------------------------------------------------------ registration claims
\* The users registered through the link of token t.
RegisteredThrough(t) ==
    {u \in UserIds : users[u].exists /\ users[u].registered_via_link = t}

\* C13: each registration token registers at most one agent; a used link
\* names that agent in used_by; a successful registration marks its link used
\* by the new agent; a call with a used token returns 'Invalid or expired
\* registration link' and inserts no user; a call refused because the user
\* name or e-mail exists leaves the link unused and inserts no user.
C13_RegistrationLinkSingleUse ==
    \A t \in RegTokens :
        LET link == registration_links[t]
        IN  /\ Cardinality(RegisteredThrough(t)) <= 1
            /\ link.exists =>
                  (IF link.used THEN RegisteredThrough(t) = {link.used_by}
                   ELSE RegisteredThrough(t) = {} /\ link.used_by = NoneId)
            /\ \A d \in AgentData :
                  LET r == register_agent_via_link(d, t)
                  IN  /\ r.ok =>
                            /\ link.exists /\ ~link.used
                            /\ r.registration_links[t].used
                            /\ r.registration_links[t].used_by = d.username
                            /\ r.users[d.username].role = "AGENT"
                            /\ r.users[d.username].partner_id = link.partner_id
                      /\ (link.exists /\ link.used) =>
                            /\ ~r.ok
                            /\ r.msg = "Invalid or expired registration link"
                            /\ r.users = users
                            /\ r.registration_links = registration_links
                      /\ ( /\ link.exists /\ ~link.used
                           /\ UsernameOrEmailExists(d.username, d.email) ) =>
                            /\ ~r.ok
                            /\ r.msg = "Username or email already exists"
                            /\ r.users = users
                            /\ r.registration_links = registration_links

\* C13 witness: one link has registered an agent and refuses a newcomer, and
\* another link is still unused after a registration under a taken e-mail
\* would be refused.
C13_Witness ==
    \E t \in RegTokens, t2 \in RegTokens, d \in AgentData :
        /\ registration_links[t].used
        /\ registration_links[t2].exists /\ ~registration_links[t2].used
        /\ ~users[d.username].exists
        /\ register_agent_via_link(d, t).msg = "Invalid or expired registration link"
        /\ register_agent_via_link(d, t2).msg = "Username or email already exists"

\* ------------------------------------------------------------------ plan-restricted coupons
\* The application of a coupon that names no plan succeeds: the coupon is
\* valid, open to the partner and gives a discount on the amount.
AppliesWithoutPlan(code, amount, partner_id) ==
    validate_and_apply_coupon_for_partner(code, amount, NoneId, partner_id).ok

\* C14 as stated: for a stored coupon that applies to a purchase when no plan
\* is named, an application naming a plan succeeds with the same discount if
\* applicable_plans is empty or holds the plan, and is refused with 'Coupon
\* not applicable for this purchase' if applicable_plans is non-empty and
\* does not hold the plan.
C14_PlanRestrictedCoupons ==
    \A code \in CouponCodes, m \in Amounts, p \in PlanIds, q \in PartnerArgs :
        LET c == coupons[code]
            r == validate_and_apply_coupon_for_partner(code, m, p, q)
            free == validate_and_apply_coupon_for_partner(code, m, NoneId, q)
        IN  (c.exists /\ AppliesWithoutPlan(code, m, q)) =>
               IF c.applicable_plans = {} \/ ObjectId(p) \in c.applicable_plans
               THEN r.ok /\ r.discount = free.discount
               ELSE ~r.ok /\ r.msg = "Coupon not applicable for this purchase"

\* ------------------------------------------------------------------ discount model
\* The coupon forms of the discount model: either type, a value below and
\* above 100, with and without a minimum purchase, a cap, a usage limit, an
\* end date and a later start date; the second code has one plain form.
DiscountForms(code) ==
    IF code = "CPN1"
    THEN { [code |-> code, discount_type |-> ty, discount_value |-> dv,
            min_purchase_amount |-> mn,
            max_discount_amount |-> IF ty = "PERCENTAGE" THEN mx ELSE NoneNum,
            usage_limit |-> ul, valid_until |-> NoneNum,
            applicable_plans |-> {}, partner_limits |-> <<>>] :
              ty \in {"PERCENTAGE", "FIXED"}, dv \in {50, 200}, mn \in {0, 200},
              mx \in {NoneNum, 50}, ul \in {NoneNum, 1} }
    ELSE { [code |-> code, discount_type |-> "FIXED", discount_value |-> 50,
            min_purchase_amount |-> 0, max_discount_amount |-> NoneNum,
            usage_limit |-> NoneNum, valid_until |-> 1, valid_from |-> 1,
            applicable_plans |-> {}, partner_limits |-> <<>>] }

DiscountAmounts == {0, 50, 100, 200}

\* Partner P1 may use coupon CPN2 only; P2 has no list and may use any.
DiscountUsers ==
    [CouponUsers EXCEPT !["P1"].assigned_coupons = {ObjectId("CPN2")}]

InitDiscount ==
    /\ users = Seeded(DiscountUsers)
    /\ plans = SeedPlans
    /\ coupons = [c \in CouponCodes |-> NoCoupon]
    /\ form_links = [t \in Tokens |-> NoLink]
    /\ forms = [f \in FormIds |-> NoForm]
    /\ pdf_files = {}
    /\ activities = NoActivity
    /\ now = 0
    /\ registration_links = [t \in RegTokens |-> NoRegLink]
    /\ InitLive

NextDiscount ==
    \/ \E c \in CouponCodes : \E d \in DiscountForms(c) : CreateCoupon(d, "SA")
    \/ ToggleCouponStatus("CPN1", "SA")
    \/ \E c \in CouponCodes, m \in DiscountAmounts, q \in PartnerArgs :
          ValidateAndApplyCouponForPartner(c, m, NoneId, q)
    \/ Tick

SpecDiscount == InitDiscount /\ [][NextDiscount]_vars

\* ------------------------------------------------------------------ discount claims
\* The application reaches the discount: the coupon is stored and valid and
\* the partner, if one is named, may use it.
ReachesDiscount(code, partner_id) ==
    /\ coupons[code].exists
    /\ is_valid(Coupon(CouponData(code)))[1]
    /\ ~( /\ partner_id # NoneId
          /\ users[partner_id].assigned_coupons # {}
          /\ ObjectId(code) \notin users[partner_id].assigned_coupons )

\* C15: calculate_discount(amount) is 0 when amount < min_purchase_amount;
\* otherwise amount * discount_value / 100 for a PERCENTAGE coupon, capped at
\* max_discount_amount when one is set, and min(discount_value, amount) for
\* any other type; an application that computes a discount of 0 is refused
\* with 'Coupon not applicable for this purchase', and no application with a
\* discount of 0 succeeds.
C15_DiscountFormula ==
    \A code \in CouponCodes, m \in DiscountAmounts :
        LET c == coupons[code]
            d == calculate_discount(Coupon(CouponData(code)), m, NoneId)
            pct == (m * c.discount_value) \div 100
        IN  c.exists =>
            /\ m < c.min_purchase_amount => d = 0
            /\ (m >= c.min_purchase_amount /\ c.discount_type = "PERCENTAGE") =>
                  /\ Truthy(c.max_discount_amount) =>
                        d = (IF pct <= c.max_discount_amount THEN pct
                             ELSE c.max_discount_amount)
                  /\ ~Truthy(c.max_discount_amount) => d = pct
            /\ (m >= c.min_purchase_amount /\ c.discount_type # "PERCENTAGE") =>
                  d = (IF c.discount_value <= m THEN c.discount_value ELSE m)
            /\ \A q \in PartnerArgs :
                  LET r == validate_and_apply_coupon_for_partner(code, m, NoneId, q)
                  IN  /\ r.ok => r.discount = d /\ d # 0
                      /\ (d = 0 /\ ReachesDiscount(code, q)) =>
                            /\ ~r.ok /\ r.discount = 0
                            /\ r.msg = "Coupon not applicable for this purchase"

\* C15 witness: a stored percentage coupon whose cap cuts the discount of one
\* purchase and whose minimum purchase refuses another.
C15_Witness ==
    \E code \in CouponCodes :
        LET c == coupons[code]
            cp == Coupon(CouponData(code))
        IN  /\ c.exists /\ c.discount_type = "PERCENTAGE"
            /\ c.used_count > 0
            /\ calculate_discount(cp, 200, NoneId) = c.max_discount_amount
            /\ (200 * c.discount_value) \div 100 > c.max_discount_amount
            /\ validate_and_apply_coupon(code, 100, NoneId).msg
                  = "Coupon not applicable for this purchase"

\* C16: validate_and_apply_coupon_for_partner adds exactly 1 to the coupon's
\* used_count when it succeeds and changes no other coupon; when it fails,
\* for whatever reason, every coupon document is unchanged.
C16_CouponAllOrNothing ==
    \A code \in CouponCodes, m \in DiscountAmounts, q \in PartnerArgs :
        LET r == validate_and_apply_coupon_for_partner(code, m, NoneId, q)
        IN  /\ r.ok =>
                /\ r.coupons[code].used_count = coupons[code].used_count + 1
                /\ r.coupons = [coupons EXCEPT ![code].used_count = @ + 1]
            /\ ~r.ok => r.coupons = coupons

\* The messages that applications of the coupons get in this state.
RefusalMessages ==
    { validate_and_apply_coupon_for_partner(code, m, NoneId, q).msg :
         code \in CouponCodes, m \in DiscountAmounts, q \in PartnerArgs }

\* C16 witness: a coupon has been applied, and in the same state applications
\* succeed and are refused for a coupon that is not yet valid, a coupon not
\* assigned to the partner and a zero discount.
C16_Witness ==
    /\ \E code \in CouponCodes : coupons[code].used_count > 0
    /\ { "Coupon is not yet valid",
         "This coupon is not available for your account",
         "Coupon not applicable for this purchase",
         "Coupon applied successfully" } \subseteq RefusalMessages

\* ------------------------------------------------------------------ assignment model
\* Partner P1 may assign PlanA only and has generated none, one or all of its
\* PDFs; its agent A1 is approved and holds PlanA since time 0 with none or
\* one PDF generated; its agent A2 has registered and waits for approval.
AssignUsers(generated, partner_generated) ==
    [u \in UserIds |->
        IF u \in SuperAdmins THEN SuperAdminDoc
        ELSE IF u = "P1"
            THEN [PartnerDoc(TRUE, MaxPdfLimit) EXCEPT
                     !.assigned_plans = {ObjectId("PlanA")},
                     !.pdf_generated = partner_generated]
        ELSE IF u = "P2" THEN PartnerDoc(FALSE, MaxPdfLimit)
        ELSE IF u = "A1"
            THEN [RegisteredAgentDoc("P1", TRUE) EXCEPT
                     !.approval_status = "APPROVED",
                     !.partner_approved = TRUE, !.super_admin_approved = TRUE,
                     !.plan_id = "PlanA",
                     !.plan_expiry_date = SeedPlans["PlanA"].period_days,
                     !.agent_pdf_limit = SeedPlans["PlanA"].pdf_limit,
                     !.agent_pdf_generated = generated,
                     !.plan_price_paid = SeedPlans["PlanA"].price]
        ELSE RegisteredAgentDoc("P1", TRUE)]

\* The coupon of the assignment model: 50 off a purchase of 200 or more, once.
AssignCouponForms ==
    { [code |-> "CPN1", discount_type |-> "FIXED", discount_value |-> 50,
       min_purchase_amount |-> 200, max_discount_amount |-> NoneNum,
       usage_limit |-> 1, valid_until |-> NoneNum,
       applicable_plans |-> {}, partner_limits |-> <<>>] }

\* The plan and coupon an assignment names; PlanX is the id of no plan.
AssignPlanArgs == PlanIds \cup {"PlanX"}
AssignCouponArgs == {NoneId, "CPN1"}
Assigners == {"SA", "P1"}

InitAssign ==
    /\ \E g \in {0, 1} : \E pg \in {g, MaxPdfLimit} : users = Seeded(AssignUsers(g, pg))
    /\ plans = SeedPlans
    /\ coupons = [c \in CouponCodes |-> NoCoupon]
    /\ form_links = [t \in Tokens |-> NoLink]
    /\ forms = [f \in FormIds |-> NoForm]
    /\ pdf_files = {}
    /\ activities = NoActivity
    /\ now = 0
    /\ registration_links = [t \in RegTokens |-> NoRegLink]
    /\ InitLive

NextAssign ==
    \/ \E a \in Agents, p \in AssignPlanArgs, by \in Assigners, c \in AssignCouponArgs :
          AssignPlanToAgent(a, p, by, c)
    \/ \E d \in AssignCouponForms : CreateCoupon(d, "SA")
    \/ \E c \in Assigners : ApproveUser("A2", c)
    \/ ToggleStatus("A2", "SA")
    \/ \E p \in PlanIds : TogglePlanStatus(p, "SA")
    \/ \E p \in PlanIds : DeletePlan(p, "SA")
    \/ Tick

SpecAssign == InitAssign /\ [][NextAssign]_vars

\* ------------------------------------------------------------------ assignment claims
\* The plan fields of a user document.
PlanFields(u) ==
    <<u.plan_id, u.plan_expiry_date, u.agent_pdf_limit, u.agent_pdf_generated,
      u.plan_price_paid>>

AssignMessages ==
    { assign_plan_to_agent(a, p, "SA", c).msg :
         a \in UserIds, p \in AssignPlanArgs, c \in AssignCouponArgs }

C19_FormLinkNeedsActivePlan ==
    \A a \in Agents, t \in Tokens, e \in {0, 1}, n \in {1, MaxPdfLimit} :
        LET agent == users[a]
            r == create_form_link(a, e, n, t)
        IN  r.ok =>
               /\ agent.plan_id # NoneId
               /\ agent.plan_expiry_date # NoneNum /\ agent.plan_expiry_date > now
               /\ agent.agent_pdf_generated < agent.agent_pdf_limit

\* ------------------------------------------------------------------ repeated PDF requests
\* C20 as stated: generate_pdf called again for a form of the agent whose PDF
\* was generated and whose file is still present returns the same
\* pdf_filename and adds nothing to the agent's agent_pdf_generated nor to
\* the partner's pdf_generated, whatever the generator would do.
C20_GeneratePdfIdempotent ==
    \A a \in Agents, f \in FormIds, g \in PdfGeneratorOutcomes :
        LET form == forms[f]
            r == generate_pdf(f, a, g)
        IN  ( /\ form.exists /\ form.agent_id = a
              /\ form.pdf_generated /\ form.pdf_filename \in pdf_files ) =>
               /\ r.ok /\ r.msg = form.pdf_filename
               /\ GeneratePdfChangesNothing(r, f, a)

\* ------------------------------------------------------------------ user identity model
\* UserService.create_partner(partner_data, created_by_id).
create_partner(partner_data, created_by_id) ==
    LET inserted_id == InsertedId(partner_data.username)
        partner ==
            [CreatedPartnerDoc(partner_data.requires_double_approval,
                               partner_data.pdf_limit)
             EXCEPT !.password = hash_password(partner_data.password),
                    !.username = partner_data.username,
                    !.email = partner_data.email,
                    !.assigned_plans =
                        {ObjectId(pid) : pid \in partner_data.assigned_plans},
                    !.assigned_coupons =
                        {ObjectId(cid) : cid \in partner_data.assigned_coupons}]
    IN  IF UsernameOrEmailExists(partner_data.username, partner_data.email)
        THEN [ok |-> FALSE, msg |-> "Username or email already exists",
              users |-> users, activities |-> activities]
        ELSE [ok |-> TRUE, msg |-> inserted_id,
              users |-> [users EXCEPT ![inserted_id] = partner],
              activities |-> log_activity(created_by_id, "PARTNER_CREATED")]

CreatePartner(partner_data, created_by_id) ==
    LET r == create_partner(partner_data, created_by_id)
    IN  /\ is_super_admin(users[created_by_id])
        /\ r.ok => r.msg # NoneId
        /\ users' = r.users
        /\ activities' = r.activities
        /\ UNCHANGED <<plans, coupons, form_links, forms, pdf_files, now,
                       registration_links, liveVars>>

\* The keys update_user drops from update_data.
PoppedKeys == {"_id", "username", "role", "created_at", "password"}

\* Another user's document holds the e-mail.
EmailOfAnother(user_id, email) ==
    \E u \in UserIds : u # user_id /\ users[u].exists /\ users[u].email = email

\* UserService.update_user(user_id, update_data, updated_by_id); update_data
\* maps field names to values. The update always writes updated_at, so a
\* document that is found counts as modified.
update_user(user_id, update_data, updated_by_id) ==
    LET data == [k \in DOMAIN update_data \ PoppedKeys |-> update_data[k]]
        old == users[user_id]
        Value(k) == IF k \in {"assigned_plans", "assigned_coupons"}
                    THEN {ObjectId(x) : x \in data[k]}
                    ELSE data[k]
        new == [k \in DOMAIN old |-> IF k \in DOMAIN data THEN Value(k) ELSE old[k]]
    IN  IF "email" \in DOMAIN data /\ EmailOfAnother(user_id, data.email)
        THEN [ok |-> FALSE, msg |-> "Email already exists",
              users |-> users, activities |-> activities]
        ELSE IF ~(user_id \in UserIds /\ old.exists)
            THEN [ok |-> TRUE, msg |-> "No changes made",
                  users |-> users, activities |-> activities]
        ELSE [ok |-> TRUE, msg |-> "User updated successfully",
              users |-> [users EXCEPT ![user_id] = new],
              activities |-> log_activity(updated_by_id, "USER_UPDATED")]

UpdateUser(user_id, update_data, updated_by_id) ==
    LET r == update_user(user_id, update_data, updated_by_id)
    IN  /\ users[updated_by_id].exists
        /\ users' = r.users
        /\ activities' = r.activities
        /\ UNCHANGED <<plans, coupons, form_links, forms, pdf_files, now,
                       registration_links, liveVars>>

\* The user names and e-mail addresses the forms carry; one address is the
\* super admin's.
IdentityNames == {"P1", "A1", "A2"}
IdentityEmails == {"a1@mail", "a2@mail", SeedEmail("SA")}

PartnerForms ==
    [username : IdentityNames, email : IdentityEmails, password : {"pw"},
     requires_double_approval : {FALSE}, pdf_limit : {MaxPdfLimit},
     assigned_plans : {{}}, assigned_coupons : {{}}]

AgentForms == [username : IdentityNames, email : IdentityEmails, password : {"pw"}]

\* What the edit and profile pages send, and a call that names a user name.
UpdateForms ==
    [email : IdentityEmails] \cup [email : IdentityEmails, is_active : BOOLEAN]
        \cup [email : IdentityEmails, username : IdentityNames]

InitIdentity ==
    /\ users = Seeded([u \in UserIds |->
                  IF u \in SuperAdmins THEN SuperAdminDoc ELSE NoUser])
    /\ plans = SeedPlans
    /\ coupons = [c \in CouponCodes |-> NoCoupon]
    /\ form_links = [t \in Tokens |-> NoLink]
    /\ forms = [f \in FormIds |-> NoForm]
    /\ pdf_files = {}
    /\ activities = NoActivity
    /\ now = 0
    /\ registration_links = [t \in RegTokens |-> NoRegLink]
    /\ InitLive

NextIdentity ==
    \/ \E d \in PartnerForms : CreatePartner(d, "SA")
    \/ GenerateRegistrationLink("SA", "P1")
    \/ \E d \in AgentForms, t \in RegTokens : RegisterAgentViaLink(d, t)
    \/ \E u \in UserIds, d \in UpdateForms : UpdateUser(u, d, "SA")

SpecIdentity == InitIdentity /\ [][NextIdentity]_vars

\* ------------------------------------------------------------------ user identity claims
\* Some user document carries the user name or the e-mail.
IdentityTaken(username, email) ==
    \E u \in UserIds :
        users[u].exists /\ (users[u].username = username \/ users[u].email = email)

\* C21: no two user documents share a user name and no two share an e-mail;
\* create_partner and register_agent_via_link (through a usable link) called
\* with a user name or e-mail that is taken return 'Username or email already
\* exists' and insert nothing; update_user called with another user's e-mail
\* returns 'Email already exists' and changes nothing, and never changes a
\* user name.
C21_UserIdentityUnique ==
    /\ \A u \in UserIds, v \in UserIds :
          (u # v /\ users[u].exists /\ users[v].exists) =>
             /\ users[u].username # users[v].username
             /\ users[u].email # users[v].email
    /\ \A d \in PartnerForms :
          LET r == create_partner(d, "SA")
          IN  IdentityTaken(d.username, d.email) =>
                 /\ ~r.ok /\ r.msg = "Username or email already exists"
                 /\ r.users = users
    /\ \A d \in AgentForms, t \in RegTokens :
          LET r == register_agent_via_link(d, t)
              link == registration_links[t]
          IN  (link.exists /\ ~link.used /\ IdentityTaken(d.username, d.email)) =>
                 /\ ~r.ok /\ r.msg = "Username or email already exists"
                 /\ r.users = users
                 /\ r.registration_links = registration_links
    /\ \A u \in UserIds, d \in UpdateForms :
          LET r == update_user(u, d, "SA")
          IN  /\ (\E v \in UserIds : v # u /\ users[v].exists
                                     /\ users[v].email = d.email) =>
                    /\ ~r.ok /\ r.msg = "Email already exists"
                    /\ r.users = users
              /\ r.users[u].username = users[u].username

\* C21 witness: a partner was created and an agent registered, a user's
\* e-mail was changed by the newest update, and in that state a partner form
\* with the agent's e-mail, an agent form with the partner's user name and an
\* update to the partner's e-mail are all refused.
C21_Witness ==
    \E p \in UserIds, a \in UserIds, t \in RegTokens :
        /\ users[p].exists /\ users[p].role = "PARTNER"
        /\ users[a].exists /\ users[a].role = "AGENT"
        /\ users[a].registered_via_link # NoneId
        /\ activities = log_activity("SA", "USER_UPDATED")
        /\ users["SA"].email # SeedEmail("SA")
        /\ registration_links[t].exists /\ ~registration_links[t].used
        /\ ~create_partner([username |-> "A2", email |-> users[a].email,
                            password |-> "pw", requires_double_approval |-> FALSE,
                            pdf_limit |-> MaxPdfLimit, assigned_plans |-> {},
                            assigned_coupons |-> {}], "SA").ok
        /\ register_agent_via_link([username |-> users[p].username,
                                    email |-> SeedEmail("SA"),
                                    password |-> "pw"], t).msg
              = "Username or email already exists"
        /\ update_user(a, [email |-> users[p].email], "SA").msg
              = "Email already exists"

====
